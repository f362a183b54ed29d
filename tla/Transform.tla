------------------------------ MODULE Transform ------------------------------
(***************************************************************************)
(* One call of codecs::transform, raster or SVG, and what it must keep.    *)
(***************************************************************************)
EXTENDS SvgCodec

TransformInit == RasterInit /\ pass = SanitizeStart

TransformNext == (RasterNext /\ pass' = pass) \/ SvgNext

\* The thread that runs a transform runs it to the end.
TransformSpec == TransformInit /\ [][TransformNext]_svgVars /\ WF_svgVars(TransformNext)

----------------------------------------------------------------------------

Done == stage = "done"
Succeeded == Done /\ result.status = "ok"

\* What the EXIF standard says a tag means: where the stored first row and
\* first column are shown.
ExifSides ==
  << <<"top", "left">>, <<"top", "right">>, <<"bottom", "right">>, <<"bottom", "left">>,
     <<"left", "top">>, <<"right", "top">>, <<"right", "bottom">>, <<"left", "bottom">> >>

SidesOf(g) ==
  << <<"top", "right", "bottom", "left">>[g[2] + 1],
     IF g[1] = 0 THEN <<"left", "top", "right", "bottom">>[g[2] + 1]
                 ELSE <<"right", "bottom", "left", "top">>[g[2] + 1] >>

Shown(tag) ==
  IF tag = 0 THEN <<0, 0>>
  ELSE CHOOSE g \in (0..1) \X (0..3) : SidesOf(g) = ExifSides[tag]

\* A viewer shows the output the way it shows the input, turned as asked: the
\* pixels are turned or the tag is kept, never both and never neither.  The one
\* exception is a tag that extract_retained_metadata cannot reset, as it is not
\* a SHORT in a bare block: an encode that retains it is turned twice.  With
\* auto-orientation off a tag that does not survive is reported.
ShownAsMeant ==
  Succeeded /\ req.input.type # "svg" =>
    LET turn == IF QuarterTurns(opt.rotate) = None THEN 0 ELSE QuarterTurns(opt.rotate)
        tag == TagOf(req.input)
    IN IF opt.autoOrient
       THEN \/ Then(result.file.turn, Shown(result.file.tag)) = Then(Shown(tag), <<0, turn>>)
            \/ /\ result.file.source = "encode" /\ result.file.tag = tag
               /\ req.input.form # "short"
       ELSE tag \in 2..8 =>
              \/ result.file.tag = tag
              \/ \E w \in result.warnings : w.warning = "OrientationDropped"

\* No stage allocates more pixels than the output limit: the limit is applied to
\* the buffer that is made, not to the size that is returned.
BuffersBounded == grown <= MaxOutput

\* Content is placed inside its canvas: padding never cuts the image it pads and
\* a watermark never hangs over the edge.
PlacedInside ==
  /\ stage = "resize" /\ opt.fit = "contain" =>
       LET box == <<opt.width, opt.height>>
           content == ContentSize(image.size, opt.width, opt.height, "contain", opt.withoutEnlargement)
           at == PositionOffset(box, content, opt.position)
       IN at[1] + content[1] <= box[1] /\ at[2] + content[2] <= box[2]
  /\ stage = "encode" /\ opt.watermark # <<>> =>
       LET wm == opt.watermark[1]
           at == WatermarkOffset(image.size, wm.image.size, wm.position, wm.margin)
       IN /\ at[1] + wm.image.size[1] <= image.size[1]
          /\ at[2] + wm.image.size[2] <= image.size[2]

----------------------------------------------------------------------------
(* What a sanitized document may hold, read independently of the pass.     *)

Opens(css, a, b) == Cardinality({k \in a..b : css[k].p \in {"(", "l(", "image-set("}})
Closes(css, a, b) == Cardinality({k \in a..b : css[k].p = ")"})

\* A renderer, or a reader who tokenizes CSS less carefully, would fetch.
Fetches(text, isSheet) ==
  \E css \in {Lex(text)} : \E i \in DOMAIN css :
    \/ css[i].p \in {"url", "xurl("} /\ IsDangerous(css[i].of)
    \/ css[i].p = "decoy" \/ css[i].spells
    \/ isSheet /\ css[i].p = "at" /\ css[i].of # "allowed"
    \/ /\ css[i].p = "string" /\ IsDangerous(css[i].of)
       /\ \E j \in 1..(i - 1) : /\ css[j].p = "image-set("
                                /\ \A k \in j..(i - 1) : Closes(css, j + 1, k) <= Opens(css, j + 1, k)

Inert(doc) ==
  \A i \in DOMAIN doc :
    /\ doc[i].ev # "pi"
    /\ doc[i].ev \in {"start", "empty"} =>
         /\ doc[i].name # "forbidden"
         /\ \A a \in DOMAIN doc[i].attrs :
              /\ doc[i].attrs[a].key \notin {"handler", "xml:base"}
              /\ doc[i].attrs[a].ref = "none"
              /\ ~Fetches(doc[i].attrs[a].text, doc[i].attrs[a].key = "style")
              /\ doc[i].attrs[a].key = "href" => ~IsDangerous(NamedBy(doc[i].attrs[a].text))
    /\ doc[i].ev = "text" /\ i > 1 /\ doc[i - 1].ev = "start" /\ doc[i - 1].name = "style" =>
         ~Fetches(doc[i].text, TRUE)

\* A document that has been sanitized is inert, and sanitizing it again accepts
\* it and changes nothing: what truss serves as SVG it takes back as SVG.
SanitizedOnce ==
  stage \in {"handback", "draw"} /\ pass.at > 0 =>
    /\ Inert(pass.out)
    /\ Sanitize(pass.out) = [ok |-> TRUE, error |-> "none", doc |-> pass.out]

----------------------------------------------------------------------------
(* Statements of the documentation the code does not keep (README, 4).     *)

\* retain_supported: what cannot travel is reported rather than dropped in silence.
LossReported ==
  Succeeded /\ req.input.type # "svg" /\ result.file.source = "encode" =>
    \A k \in WantedKinds : k \in result.file.kinds \/ Dropped(k) \in result.warnings

\* docs/pipeline.md: "When the metadata is retained, the tag is reset so the viewer
\* does not turn the pixels again."
TurnedOnce ==
  Succeeded /\ req.input.type # "svg" /\ opt.autoOrient /\ result.file.source = "encode" =>
    result.file.tag \in {0, 1}

\* ArtifactMetadata: width and height are the dimensions as stored.
DescribesOutput == Succeeded /\ opt.format # "svg" => result.size = result.file.stored
=============================================================================
