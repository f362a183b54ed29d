----------------------------- MODULE RasterCodec -----------------------------
(***************************************************************************)
(* codecs::transform and codecs::raster: one transform, from the options a *)
(* caller wrote to the artifact and the warnings it gets back.             *)
(*                                                                         *)
(* Pixels are abstracted to what the properties tell apart: the size of    *)
(* the image, whether it is transparent, and how it has been turned.  A    *)
(* turn is <<flip, quarters>>: a horizontal flip, then clockwise quarter   *)
(* turns.  A file is abstracted to its type, stored size, orientation tag, *)
(* the kinds of metadata it carries and its length.  The encoders, whose   *)
(* lengths and scores nothing promises, choose theirs freely.              *)
(***************************************************************************)
EXTENDS Geometry, FiniteSets

CONSTANTS
  Requests,       \* the transforms asked for: [input, options, watermark, webpLossy]
  MaxOutput,      \* MAX_OUTPUT_PIXELS
  MaxDecoded,     \* MAX_DECODED_PIXELS
  MaxWatermark,   \* MAX_WATERMARK_PIXELS
  TopQuality,     \* 100: the end of the quality range the search probes
  Lengths         \* the lengths an encode may have

ASSUME LimitsAssumption ==
  /\ MaxOutput \in Nat /\ MaxDecoded \in Nat /\ MaxWatermark \in Nat
  /\ MaxOutput <= MaxDecoded
  /\ TopQuality \in 1..100
  /\ Lengths \subseteq Nat /\ Lengths # {}

Kinds == {"exif", "icc", "xmp", "iptc"}

Sizes == (Nat \ {0}) \X (Nat \ {0})

\* How a file writes its orientation tag: as the one SHORT of a bare TIFF block,
\* as a LONG, or in a block behind the "Exif" prefix of a JPEG segment.  The
\* readers of core.rs take all three.
TagForms == {"short", "long", "prefixed"}

\* What a caller can hand over: options of their types, a rotation already
\* reduced to one turn, and a file of which no decoder makes an empty image, no
\* drawing is empty and, but for TIFF, no tag stands outside an Exif block.  The
\* prefix belongs to a JPEG's segment and not to its block.
ASSUME RequestsAssumption ==
  \A r \in Requests :
    /\ r \in [input : {r.input}, options : {r.options}, watermark : {r.watermark}, webpLossy : BOOLEAN]
    /\ r.input \in [type : MediaTypes, size : Nat \X Nat, decoded : Sizes, frames : Nat, tag : 0..8,
                    form : TagForms, alpha : BOOLEAN, kinds : SUBSET Kinds, length : Nat, fault : {r.input.fault},
                    oversize : SUBSET Kinds, doc : {r.input.doc}, region : {<<>>}]
    /\ r.input.type = "svg" => r.input.size \in Sizes
    /\ r.input.type = "jpeg" => r.input.form # "prefixed"
    /\ r.input.type \in {"jpeg", "png", "webp"} /\ r.input.tag # 0 => "exif" \in r.input.kinds
    /\ {r.options.width, r.options.height} \subseteq Nat \cup {None}
    /\ r.options.rotate \in 0..359 /\ r.options.autoOrient \in BOOLEAN
    /\ r.options.crop = <<>> \/ r.options.crop \in Nat \X Nat \X Nat \X Nat
    /\ r.watermark # <<>> =>
         r.watermark[1].image.size \in Nat \X Nat /\ r.watermark[1].margin \in Nat

VARIABLES
  req,       \* the request being transformed
  opt,       \* its normalized options, once accepted
  stage,     \* the next stage to run
  image,     \* the decoded image: [size, alpha, turn, diagonal]
  grown,     \* pixels of the largest buffer a stage allocated beyond its input
  kept,      \* the metadata kinds retained for the output
  warnings,  \* warnings about the transform
  enc,       \* the encoder's progress
  clock,     \* [expired]: the deadline has passed
  result     \* what the caller gets

rasterVars == <<req, opt, stage, image, grown, kept, warnings, enc, clock, result>>

NoResult == [status |-> "none"]
NoImage == [size |-> <<0, 0>>, alpha |-> FALSE, turn |-> <<0, 0>>, diagonal |-> FALSE]
NoEncode == [phase |-> "idle", best |-> 0, baseline |-> 0, lossy |-> FALSE, baseLossy |-> FALSE,
             tries |-> 0, low |-> 1, high |-> 0, met |-> 0, missed |-> 0, shortfall |-> FALSE]

Failed(error) == [status |-> "failed", error |-> error]

Fail(error) ==
  /\ stage' = "done"
  /\ result' = Failed(error)
  /\ UNCHANGED <<req, opt, image, grown, kept, warnings, enc, clock>>

----------------------------------------------------------------------------
(* Turns and orientation tags.                                             *)

Then(g, h) == << (g[1] + h[1]) % 2, ((IF h[1] = 1 THEN 4 - g[2] ELSE g[2]) + h[2]) % 4 >>

\* apply_exif_orientation.
OrientationTurn(tag) ==
  CASE tag = 2 -> <<1, 0>>
    [] tag = 3 -> <<0, 2>>
    [] tag = 4 -> <<1, 2>>
    [] tag = 5 -> <<1, 3>>
    [] tag = 6 -> <<0, 1>>
    [] tag = 7 -> <<1, 1>>
    [] tag = 8 -> <<0, 3>>
    [] OTHER   -> <<0, 0>>

Turned(img, g) ==
  [img EXCEPT !.turn = Then(img.turn, g),
              !.size = IF g[2] % 2 = 1 THEN <<img.size[2], img.size[1]>> ELSE img.size]

\* exif_orientation: the tag of the containers that can carry one.
TagOf(file) == IF file.type \in {"jpeg", "png", "webp", "tiff"} THEN file.tag ELSE 0

OrientationIsNoop(file) == TagOf(file) \in {0, 1}

----------------------------------------------------------------------------
(* Metadata.                                                               *)

\* read_input_metadata: what each container's decoder offers.
ReadKinds(file) ==
  CASE file.type \in {"jpeg", "png", "webp"} -> file.kinds
    [] file.type \in {"tiff", "gif"}         -> file.kinds \cap {"icc"}
    [] OTHER                                 -> {}

PolicyKinds(policy) ==
  CASE policy = "KeepAll"      -> Kinds
    [] policy = "PreserveExif" -> {"exif"}
    [] policy = "PreserveIcc"  -> {"icc"}
    [] OTHER                   -> {}

\* retain_supported: what the output format can carry.
SupportedKinds(format) ==
  CASE format = "jpeg"            -> Kinds
    [] format \in {"png", "webp"} -> {"exif", "icc", "xmp"}
    [] format = "tiff"            -> {"icc"}
    [] OTHER                      -> {}

Dropped(kind) == [warning |-> "MetadataDropped", kind |-> kind]

WantedKinds == ReadKinds(req.input) \cap PolicyKinds(opt.policy)

----------------------------------------------------------------------------
(* The input's own bytes as an answer.                                     *)

\* Mutant: the orientation tag is left out of the conditions.
MayPassThroughTurned ==
  /\ req.input.type = opt.format
  /\ opt.width = None /\ opt.height = None /\ opt.quality = None
  /\ opt.background = "none" /\ opt.rotate = 0 /\ opt.crop = <<>>
  /\ opt.blur = None /\ opt.sharpen = None /\ ~opt.grayscale /\ opt.watermark = <<>>

\* is_passthrough_lossless_request, with metadata_policy_retains_exif.
MayPassThrough ==
  /\ req.input.type = opt.format
  /\ opt.width = None /\ opt.height = None /\ opt.quality = None
  /\ opt.background = "none" /\ opt.rotate = 0 /\ opt.crop = <<>>
  /\ opt.blur = None /\ opt.sharpen = None /\ ~opt.grayscale /\ opt.watermark = <<>>
  /\ \/ ~opt.autoOrient
     \/ OrientationIsNoop(req.input)
     \/ "exif" \in PolicyKinds(opt.policy)

\* The input with the metadata the policy does not keep taken out: a JPEG without
\* the segments, a PNG without the chunks, a WebP without chunks and VP8X flags.
KeptInPlace == req.input.kinds \cap PolicyKinds(opt.policy)

OwnBytes ==
  [type |-> opt.format, stored |-> req.input.size, turn |-> <<0, 0>>, diagonal |-> FALSE,
   kinds |-> KeptInPlace, tag |-> IF "exif" \in KeptInPlace THEN req.input.tag ELSE 0,
   length |-> req.input.length - Cardinality(req.input.kinds \ KeptInPlace), source |-> "input"]

\* dropped_orientation_warning.
OrientationWarning(outTag) ==
  IF opt.autoOrient \/ outTag \in 2..8 \/ TagOf(req.input) \notin 2..8 THEN {}
  ELSE {[warning |-> "OrientationDropped", kind |-> "orientation"]}

Answer(file, reported, hasAlpha, warned) ==
  [status |-> "ok", file |-> file, size |-> reported, tag |-> file.tag,
   alpha |-> hasAlpha, warnings |-> warned]

----------------------------------------------------------------------------
(* Acceptance: codecs::transform, normalize and the container checks.      *)

Dispatch(r) ==
  FirstBroken(<< <<r.options.format \in {"svg", "gif"}, "UnsupportedOutput">>,
                 <<r.input.frames > 1, "UnsupportedInput">> >>)

ContainerFault(file) == file.type \in {"png", "webp"} /\ file.fault = "container"

\* transform_raster up to the start of its budget.  A lossless JPEG request is
\* answered here, from the input's own coefficients or not at all.
Accept ==
  /\ stage = "accept" /\ req.input.type # "svg"
  /\ LET refusal == NormalizeRefusal(req.options, req.input.type, req.watermark)
         n == Normalized(req.options, req.input.type, req.watermark)
         lossless == n.optimize = "lossless" /\ n.format = "jpeg"
     IN \/ Dispatch(req) # "ok" /\ Fail(Dispatch(req))
        \/ Dispatch(req) = "ok" /\ refusal # "ok" /\ Fail("InvalidOptions")
        \/ /\ Dispatch(req) = "ok" /\ refusal = "ok"
           /\ IF ContainerFault(req.input) THEN Fail("DecodeFailed")
              ELSE /\ opt' = n
                   /\ stage' = IF lossless THEN "lossless" ELSE "metadata"
                   /\ UNCHANGED <<req, image, grown, kept, warnings, enc, clock, result>>

LosslessJpeg ==
  /\ stage = "lossless"
  /\ \/ ~MayPassThrough /\ Fail("CapabilityMissing")
     \/ MayPassThrough /\ req.input.fault = "container" /\ Fail("InvalidInput")
     \/ /\ MayPassThrough /\ req.input.fault # "container"
        /\ stage' = "done"
        /\ result' = Answer(OwnBytes, req.input.size, req.input.alpha, OrientationWarning(OwnBytes.tag))
        /\ UNCHANGED <<req, opt, image, grown, kept, warnings, enc, clock>>

----------------------------------------------------------------------------
(* The deadline: time may run out while a stage works; the check after it  *)
(* ends the transform, so the stage under way is the last one.             *)

Work(next) ==
  \E late \in {clock.expired} \cup (IF opt.deadline THEN {TRUE} ELSE {}) :
    /\ clock' = [expired |-> late]
    /\ IF late THEN stage' = "done" /\ result' = Failed("LimitExceeded")
               ELSE stage' = next /\ result' = result

\* A step with no check of its own.
Unchecked(next) ==
  \E late \in {clock.expired} \cup (IF opt.deadline THEN {TRUE} ELSE {}) :
    /\ clock' = [clock EXCEPT !.expired = late]
    /\ stage' = next /\ result' = result

\* apply_pixel_stages: the order is fixed, a stage not asked for is passed over.
StageOrder == <<"rotate", "crop", "resize", "blur", "sharpen", "grayscale", "watermark", "encode">>

Asked(s) ==
  CASE s = "crop"      -> opt.crop # <<>>
    [] s = "blur"      -> opt.blur # None
    [] s = "sharpen"   -> opt.sharpen # None
    [] s = "grayscale" -> opt.grayscale
    [] s = "watermark" -> opt.watermark # <<>>
    [] OTHER           -> TRUE

After(s) ==
  LET at == CHOOSE i \in DOMAIN StageOrder : StageOrder[i] = s
      later == {i \in DOMAIN StageOrder : i > at /\ Asked(StageOrder[i])}
  IN StageOrder[CHOOSE i \in later : \A j \in later : i <= j]

\* check_input_pixel_limit.
InputTooLarge == Pixels(req.input.size) > MaxDecoded

\* extract_retained_metadata, then check_input_pixel_limit.
ExtractMetadata ==
  /\ stage = "metadata"
  /\ IF /\ opt.policy # "StripAll" /\ req.input.type # "bmp"
        /\ req.input.fault \in {"container", "decoder"}
     THEN Fail("DecodeFailed")
     ELSE IF InputTooLarge THEN Fail("LimitExceeded")
     ELSE /\ kept' = WantedKinds \cap SupportedKinds(opt.format)
          /\ warnings' = {Dropped(k) : k \in WantedKinds \ SupportedKinds(opt.format)}
          /\ Unchecked("decode")
          /\ UNCHANGED <<req, opt, image, grown, enc>>

\* A file the decoder refuses, or one on which it panics: both are the caller's.
DecoderRefuses(file) == file.fault # "none"

\* decode_input.
Decode ==
  /\ stage = "decode"
  /\ IF DecoderRefuses(req.input) THEN Fail("DecodeFailed")
     ELSE /\ image' = [NoImage EXCEPT !.size = req.input.decoded, !.alpha = req.input.alpha]
          /\ Work("rotate")
          /\ UNCHANGED <<req, opt, grown, kept, warnings, enc>>

\* background_pixel: what fills a corner nobody asked a colour for.
FillsClear == opt.background = "none" /\ opt.format \notin {"jpeg", "bmp"}

\* apply_auto_orientation and apply_rotation: the two are one stage, one check.
Rotate ==
  /\ stage = "rotate"
  /\ LET upright == IF opt.autoOrient THEN Turned(image, OrientationTurn(TagOf(req.input))) ELSE image
         canvas == RotatedBox(upright.size, opt.rotate)
     IN IF QuarterTurns(opt.rotate) # None
        THEN image' = Turned(upright, <<0, QuarterTurns(opt.rotate)>>) /\ grown' = grown
             /\ Work(After("rotate"))
             /\ UNCHANGED <<req, opt, kept, warnings, enc>>
        ELSE IF Pixels(canvas) > MaxOutput THEN Fail("LimitExceeded")
        ELSE image' = [upright EXCEPT !.size = canvas, !.diagonal = TRUE,
                         !.alpha = upright.alpha \/ FillsClear]
             /\ grown' = Greater(grown, Pixels(canvas))
             /\ Work(After("rotate"))
             /\ UNCHANGED <<req, opt, kept, warnings, enc>>

\* The rectangle the crop stage cuts; a drawing passes its own.
CropRegion == IF req.input.type = "svg" THEN req.input.region ELSE opt.crop

Crop ==
  /\ stage = "crop"
  /\ IF ~CropFits(CropRegion, image.size) THEN Fail("InvalidOptions")
     ELSE /\ image' = [image EXCEPT !.size = <<CropRegion[3], CropRegion[4]>>]
          /\ Work(After("crop"))
          /\ UNCHANGED <<req, opt, grown, kept, warnings, enc>>

\* Mutant: only the finished canvas is measured, not the scaled content.
ExceedsOutputOnly(content, size) == Pixels(size) > MaxOutput \/ ~FitsFormat(opt.format, size)

\* check_output_pixel_limit: what a cover scales to is made before it is cut.
ExceedsOutput(content, size) ==
  \/ opt.fit = "cover" /\ Pixels(content) > MaxOutput
  \/ Pixels(size) > MaxOutput
  \/ ~FitsFormat(opt.format, size)

\* pad_to_box: content smaller than its box is laid on a canvas of its own.
Padded(content, size) == opt.fit = "contain" /\ content # size

\* cover_to_box: the scaled image and the cut of it exist side by side.
Allocated(content, size) == Greater(Pixels(content), Pixels(size))

\* apply_resize, after the limit.
Resize ==
  /\ stage = "resize"
  /\ LET content == ContentSize(image.size, opt.width, opt.height, opt.fit, opt.withoutEnlargement)
         size == ResolvedSize(image.size, opt.width, opt.height, opt.fit, opt.withoutEnlargement)
     IN IF ExceedsOutput(content, size) THEN Fail("LimitExceeded")
        ELSE /\ image' = [image EXCEPT !.size = size,
                            !.alpha = @ \/ (Padded(content, size) /\ FillsClear)]
             /\ grown' = Greater(grown, Allocated(content, size))
             /\ Work(After("resize"))
             /\ UNCHANGED <<req, opt, kept, warnings, enc>>

\* blur, sharpen and grayscale change samples only.
Filter(s) ==
  /\ stage = s
  /\ Work(After(s))
  /\ UNCHANGED <<req, opt, image, grown, kept, warnings, enc>>

\* apply_watermark: the header is judged before the decode and the pixels after.
Watermark ==
  /\ stage = "watermark"
  /\ LET wm == opt.watermark[1]
     IN IF ~WatermarkFits(wm.image.size, image.size, wm.position, wm.margin) THEN Fail("InvalidOptions")
        ELSE IF Pixels(wm.image.size) > MaxWatermark THEN Fail("LimitExceeded")
        ELSE IF DecoderRefuses(wm.image) THEN Fail("DecodeFailed")
        ELSE IF wm.image.decoded # wm.image.size THEN Fail("InvalidInput")
        ELSE Work("encode") /\ UNCHANGED <<req, opt, image, grown, kept, warnings, enc>>

----------------------------------------------------------------------------
(* Encoding.  flatten_for_opaque_output comes first: JPEG carries no alpha. *)

HasAlpha == image.alpha /\ opt.format # "jpeg"

NoLossyWebp == opt.format = "webp" /\ ~req.webpLossy

\* The target the search aims at, and whether the caller named it.
Target == IF HasTarget(opt) THEN opt.target
          ELSE IF opt.quality = None THEN DefaultLossyTarget(opt.format)
          ELSE [metric |-> "none", value |-> 0]

MaxQuality == IF opt.quality = None THEN TopQuality ELSE opt.quality

Encodable == {"jpeg", "png", "webp", "bmp", "tiff"}

\* The arms the encoders mark as never taken: SVG or GIF output here, and a
\* lossless JPEG that was not answered before the decode.
Misrouted ==
  opt.format \notin Encodable \/ (opt.optimize = "lossless" /\ opt.format \notin {"png", "webp"})

\* Any encoder may refuse the image.
EncoderFails ==
  /\ stage = "encode" /\ enc.phase \in {"idle", "png", "lossy"}
  /\ opt.format \in Encodable /\ ~NoLossyWebp
  /\ Fail("EncodeFailed")

\* EncodeDeadline::check, after each encode.
EncodeWork == Work("encode") /\ UNCHANGED <<req, opt, image, grown, kept, warnings>>

\* encode_baseline_output: the answer of none, what auto has to beat.
BaselineEncode ==
  LET lossy == opt.format = "webp" /\ opt.quality # None
  IN IF lossy /\ NoLossyWebp
     THEN Fail("CapabilityMissing")
     ELSE /\ \E n \in Lengths :
               enc' = [enc EXCEPT !.best = n, !.baseline = n, !.lossy = lossy, !.baseLossy = lossy,
                         !.phase = IF opt.optimize = "none" THEN "encoded"
                                   ELSE IF opt.format = "png" THEN "png" ELSE "lossy",
                         !.high = MaxQuality]
          /\ EncodeWork

\* encode_lossless_optimized_output: PNG tries strategies, WebP has one.
LosslessEncode ==
  /\ \E n \in Lengths :
       enc' = [enc EXCEPT !.best = n, !.phase = IF opt.format = "png" THEN "png" ELSE "encoded"]
  /\ EncodeWork

\* encode_output.
Encode ==
  /\ stage = "encode" /\ enc.phase = "idle" /\ req.input.type # "svg"
  /\ IF Misrouted THEN Fail("Misrouted")
     ELSE \/ opt.optimize \in {"none", "auto"} /\ BaselineEncode
          \/ opt.optimize = "lossless" /\ LosslessEncode
          \/ /\ opt.optimize = "lossy"
             /\ enc' = [enc EXCEPT !.phase = "lossy", !.high = MaxQuality]
             /\ UNCHANGED <<req, opt, stage, image, grown, kept, warnings, clock, result>>

PngStrategies == 5

\* encode_png_optimized: five strategies against the default, smallest wins;
\* auto then compares the winner with its baseline.
TryPngStrategy ==
  /\ stage = "encode" /\ enc.phase = "png"
  /\ \E n \in Lengths :
       enc' = [enc EXCEPT !.best = Lesser(@, n), !.tries = @ + 1,
                          !.phase = IF enc.tries + 1 = PngStrategies THEN "encoded" ELSE "png"]
  /\ EncodeWork

\* encode_auto_output's choice between the attempt and the baseline.
Chosen(n, lossy, shortfall) ==
  IF opt.optimize = "auto" /\ ~HasTarget(opt) /\ n >= enc.baseline
  THEN [enc EXCEPT !.phase = "encoded", !.best = enc.baseline, !.lossy = enc.baseLossy]
  ELSE [enc EXCEPT !.phase = "encoded", !.best = n, !.lossy = lossy,
                   !.shortfall = shortfall /\ HasTarget(opt)]

\* encode_lossy_optimized_output without a target: one encode at the quality.
EncodeAtQuality ==
  /\ stage = "encode" /\ enc.phase = "lossy" /\ Target.metric = "none" /\ ~NoLossyWebp
  /\ \E n \in Lengths : enc' = Chosen(n, opt.format = "webp", FALSE)
  /\ EncodeWork

\* A build without libwebp: auto falls back to its baseline, lossy refuses.
EncodeUnavailable ==
  /\ stage = "encode" /\ enc.phase = "lossy" /\ NoLossyWebp
  /\ IF opt.optimize = "auto"
     THEN /\ enc' = [enc EXCEPT !.phase = "encoded"]
          /\ UNCHANGED <<req, opt, stage, image, grown, kept, warnings, clock, result>>
     ELSE Fail("CapabilityMissing")

\* A quality that reaches the target is a new upper end, one that does not a new
\* lower end; the encode kept is the last that reached it.
Probed(mid, n, reached) ==
  IF reached THEN [enc EXCEPT !.met = mid, !.best = n, !.high = IF mid = 1 THEN 0 ELSE mid - 1]
  ELSE [enc EXCEPT !.missed = mid, !.best = IF enc.met = 0 THEN n ELSE @, !.low = mid + 1]

\* measure_quality_metric: whether the encode scores as high as the target.
Scores == BOOLEAN

\* search_quality_for_target: one probe encodes, decodes and scores the middle
\* of the range.  The score is the encoder's: nothing says it rises with quality.
ProbeQuality ==
  /\ stage = "encode" /\ enc.phase = "lossy" /\ Target.metric # "none" /\ ~NoLossyWebp
  /\ enc.low <= enc.high
  /\ \E n \in Lengths, reached \in Scores :
       enc' = Probed(enc.low + (enc.high - enc.low) \div 2, n, reached)
  /\ EncodeWork

EndSearch ==
  /\ stage = "encode" /\ enc.phase = "lossy" /\ Target.metric # "none" /\ ~NoLossyWebp
  /\ enc.low > enc.high
  /\ enc' = Chosen(enc.best, opt.format = "webp", enc.met = 0)
  /\ UNCHANGED <<req, opt, stage, image, grown, kept, warnings, clock, result>>

----------------------------------------------------------------------------
(* The end: injection after the encode, the input's own bytes if smaller,  *)
(* and the warnings that are still true.                                   *)

\* The kinds the encoder itself wrote: libwebp and BMP write none.
EncoderKinds ==
  IF enc.lossy \/ opt.format = "bmp" THEN {} ELSE kept \cap {"exif", "icc"}

\* inject_jpeg_xmp, inject_jpeg_iptc: a payload too large for a segment is left
\* out.  inject_png_xmp: a chunk has room.
JpegSegments == (kept \cap {"xmp", "iptc"}) \ req.input.oversize
PngChunks == kept \cap {"xmp"}

\* inject_webp_metadata: a container that cannot be rewritten gets nothing.
WebpChunks(rewritable) == IF rewritable THEN kept ELSE {}

\* parse_webp_chunks on what the encoder made.
Rewritable == IF opt.format = "webp" THEN BOOLEAN ELSE {TRUE}

\* inject_metadata.
Injected(rewritable) ==
  EncoderKinds \cup CASE opt.format = "jpeg" -> JpegSegments
                      [] opt.format = "png"  -> PngChunks
                      [] opt.format = "webp" -> WebpChunks(rewritable)
                      [] OTHER               -> {}

InjectionWarnings(rewritable) ==
  IF opt.format = "webp" /\ enc.lossy /\ ~rewritable
  THEN {Dropped(k) : k \in kept \cap {"icc", "exif"}} ELSE {}

\* remove_from_exif_chunk sets the tag to 1, but finds it only as a SHORT in a
\* bare block; that it found none is not asked.
TagReset == opt.autoOrient /\ req.input.form = "short"

\* A JPEG encoder puts a prefix of its own before a block that brought one, and
\* then no reader finds the tag.
TagReadable == req.input.form # "prefixed" \/ opt.format # "jpeg"

Encoded(rewritable) ==
  LET carried == Injected(rewritable)
  IN [type |-> opt.format, stored |-> image.size, turn |-> image.turn, diagonal |-> image.diagonal,
      kinds |-> carried, length |-> enc.best, source |-> "encode",
      tag |-> IF "exif" \notin carried \/ ~TagReadable THEN 0
              ELSE IF TagReset /\ TagOf(req.input) # 0 THEN 1 ELSE TagOf(req.input)]

\* smaller_passthrough: the input's own bytes beat a larger encode.
PassesThrough(encoded) ==
  /\ opt.optimize # "none" /\ MayPassThrough
  /\ opt.format \in {"jpeg", "png", "webp"}
  /\ OwnBytes.length < encoded.length

Finish ==
  /\ stage = "encode" /\ enc.phase = "encoded" /\ req.input.type # "svg"
  /\ \E rewritable \in Rewritable :
       LET encoded == Encoded(rewritable)
           file == IF PassesThrough(encoded) THEN OwnBytes ELSE encoded
           search == IF enc.shortfall /\ ~PassesThrough(encoded)
                     THEN {[warning |-> "TargetQualityNotReached", kind |-> "quality"]} ELSE {}
       IN result' = Answer(file, image.size, HasAlpha,
                           warnings \cup InjectionWarnings(rewritable) \cup search
                             \cup OrientationWarning(file.tag))
  /\ stage' = "done"
  /\ UNCHANGED <<req, opt, image, grown, kept, warnings, enc, clock>>

----------------------------------------------------------------------------

RasterInit ==
  /\ req \in Requests
  /\ opt = [deadline |-> FALSE] /\ stage = "accept" /\ image = NoImage /\ grown = 0
  /\ kept = {} /\ warnings = {} /\ enc = NoEncode
  /\ clock = [expired |-> FALSE] /\ result = NoResult

PixelStages == Rotate \/ Crop \/ Resize \/ (\E s \in {"blur", "sharpen", "grayscale"} : Filter(s)) \/ Watermark

RasterNext ==
  \/ Accept \/ LosslessJpeg \/ ExtractMetadata \/ Decode \/ PixelStages
  \/ Encode \/ EncoderFails \/ TryPngStrategy \/ EncodeAtQuality \/ EncodeUnavailable
  \/ ProbeQuality \/ EndSearch \/ Finish
=============================================================================
