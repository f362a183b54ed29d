------------------------------ MODULE SvgCodec ------------------------------
(***************************************************************************)
(* codecs::svg::transform_svg: an SVG input is sanitized, and then either  *)
(* handed back or drawn at the size the resize asks for and sent through   *)
(* the raster codec's pixel stages.  The drawing's intrinsic size is       *)
(* input.size, its document input.doc.                                     *)
(***************************************************************************)
EXTENDS RasterCodec, SvgSanitizer

CONSTANT SvgBuild   \* the build has the svg feature

ASSUME SvgBuildAssumption == SvgBuild \in BOOLEAN

\* A document is what the reader makes of a file: a sequence and a set of events.
ASSUME DocumentsAssumption ==
  \A r \in Requests :
    LET doc == r.input.doc
    IN /\ \A i \in 1..Len(doc.head) : IsEvent(doc.head[i])
       /\ \A e \in doc.palette : IsEvent(e)

VARIABLE pass   \* the sanitizer's progress through the document

svgVars == <<rasterVars, pass>>

\* codecs::transform sends every SVG input here before its other checks.
AcceptSvg ==
  /\ stage = "accept" /\ req.input.type = "svg"
  /\ LET refusal == NormalizeRefusal(req.options, "svg", req.watermark)
     IN IF ~SvgBuild THEN Fail("CapabilityMissing")
        ELSE IF refusal # "ok" THEN Fail("InvalidOptions")
        ELSE /\ opt' = Normalized(req.options, "svg", req.watermark)
             /\ stage' = "sanitize"
             /\ UNCHANGED <<req, image, grown, kept, warnings, enc, clock, result>>
  /\ pass' = pass

\* The XML reader: a document is its head, then events of its palette, up to its
\* length; which ones is settled as they are read.
EventAt(doc, i) == IF i <= Len(doc.head) THEN {doc.head[i]} ELSE doc.palette

ReadEvent ==
  /\ stage = "sanitize" /\ pass.error = "none" /\ pass.at < req.input.doc.length
  /\ \E e \in EventAt(req.input.doc, pass.at + 1) : pass' = SanitizeEvent(pass, e)
  /\ UNCHANGED rasterVars

\* The end of the loop: an error, a root that is gone, or a document to go on with.
SanitizeDocument ==
  /\ stage = "sanitize"
  /\ \/ pass.error # "none" /\ Fail(pass.error)
     \/ /\ pass.error = "none" /\ pass.at >= Len(req.input.doc.head)
        /\ IF ~RootIsSvg(pass.out) THEN Fail("DecodeFailed")
           ELSE /\ Work(IF opt.format = "svg" THEN "handback" ELSE "draw")
                /\ UNCHANGED <<req, opt, image, grown, kept, warnings, enc>>
  /\ pass' = pass

\* SVG output: nothing that needs pixels can be honoured.
HandBack ==
  /\ stage = "handback"
  /\ IF opt.blur # None \/ opt.sharpen # None \/ opt.watermark # <<>> \/ opt.crop # <<>>
     THEN Fail("InvalidOptions")
     ELSE /\ stage' = "done"
          /\ result' = Answer([type |-> "svg", stored |-> req.input.size, turn |-> <<0, 0>>,
                               diagonal |-> FALSE, kinds |-> {}, tag |-> 0, length |-> 1,
                               source |-> "encode"], <<None, None>>, TRUE, {})
          /\ UNCHANGED <<req, opt, image, grown, kept, warnings, enc, clock>>
  /\ pass' = pass

----------------------------------------------------------------------------
(* The size of the drawing, from dimensions alone.                         *)

Turned0 == RotatedBox(req.input.size, opt.rotate)

Region == IF opt.crop = <<>> THEN Turned0 ELSE <<opt.crop[3], opt.crop[4]>>

RegionRender == ContentSize(Region, opt.width, opt.height, opt.fit, opt.withoutEnlargement)

Scaled == ScaledCrop(opt.crop, Turned0, RegionRender)

FullRender == IF opt.crop = <<>> THEN RegionRender ELSE Scaled.full

\* With no rotation the cropped region is drawn directly, into a buffer of its
\* own size; with one the whole drawing is drawn, turned and then cut.
DrawsRegion == opt.crop # <<>> /\ opt.rotate = 0

Rasterization ==
  IF DrawsRegion THEN <<Scaled.crop[3], Scaled.crop[4]>>
  ELSE PreRotationSize(FullRender, req.input.size, Turned0, opt.rotate)

Canvas == ResolvedSize(Region, opt.width, opt.height, opt.fit, opt.withoutEnlargement)

\* The limits come first, then rasterize_svg; what is drawn joins the pixel
\* stages with the rectangle that is left to cut.
Draw ==
  /\ stage = "draw"
  /\ IF req.input.fault # "none" THEN Fail("DecodeFailed")
     ELSE IF opt.crop # <<>> /\ ~CropFits(opt.crop, Turned0) THEN Fail("InvalidOptions")
     ELSE IF \/ Pixels(Rasterization) > MaxOutput
             \/ Pixels(Canvas) > MaxOutput
             \/ ~FitsFormat(opt.format, Canvas)
     THEN Fail("LimitExceeded")
     ELSE /\ image' = [NoImage EXCEPT !.size = Rasterization, !.alpha = TRUE]
          /\ grown' = Pixels(Rasterization)
          /\ opt' = [opt EXCEPT !.crop = IF DrawsRegion THEN <<>> ELSE @]
          /\ req' = [req EXCEPT !.input.region =
                       IF opt.crop # <<>> /\ ~DrawsRegion THEN Scaled.crop ELSE <<>>]
          /\ Work("rotate")
          /\ UNCHANGED <<kept, warnings, enc>>
  /\ pass' = pass

\* encode_raster_output: one encode, no metadata, no optimization.
EncodeDrawing ==
  /\ stage = "encode" /\ req.input.type = "svg"
  /\ IF opt.format = "gif" THEN Fail("UnsupportedOutput")
     ELSE IF opt.format = "svg" THEN Fail("Misrouted")
     ELSE IF opt.format = "webp" /\ opt.quality # None /\ ~req.webpLossy THEN Fail("CapabilityMissing")
     ELSE \E n \in Lengths, late \in {clock.expired} \cup (IF opt.deadline THEN {TRUE} ELSE {}) :
            /\ clock' = [expired |-> late]
            /\ stage' = "done"
            /\ result' = IF late THEN Failed("LimitExceeded")
                         ELSE Answer([type |-> opt.format, stored |-> image.size, turn |-> image.turn,
                                      diagonal |-> image.diagonal, kinds |-> {}, tag |-> 0,
                                      length |-> n, source |-> "encode"],
                                     image.size, opt.format # "jpeg", {})
            /\ UNCHANGED <<req, opt, image, grown, kept, warnings, enc>>
  /\ pass' = pass

SvgNext == AcceptSvg \/ ReadEvent \/ SanitizeDocument \/ HandBack \/ Draw \/ EncodeDrawing
=============================================================================
