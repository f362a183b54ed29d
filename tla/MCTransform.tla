---------------------------- MODULE MCTransform ----------------------------
(* Transform on families of requests, each turned to one hazard. *)
EXTENDS Transform

Doc(head, palette, length) == [head |-> head, palette |-> palette, length |-> length]

File(type) ==
  [type |-> type, size |-> <<2, 3>>, decoded |-> <<2, 3>>, frames |-> 1, tag |-> 0,
   form |-> "short", alpha |-> FALSE,
   kinds |-> {}, length |-> 2, fault |-> "none", oversize |-> {}, doc |-> Doc(<<>>, {}, 0), region |-> <<>>]

Asking(input, options) == [input |-> input, options |-> options, watermark |-> <<>>, webpLossy |-> TRUE]

O == DefaultOptions

----------------------------------------------------------------------------
(* Documents.                                                              *)

Elem(ev, name, attrs) == [ev |-> ev, name |-> name, attrs |-> attrs]
Open(name) == Elem("start", name, <<>>)
End == [ev |-> "end"]
Text(pieces) == [ev |-> "text", text |-> pieces]
Reference(name) == [ev |-> "ref", name |-> name]
Attr(key, ref, pieces) == [key |-> key, ref |-> ref, text |-> pieces]

P(p) == Piece(p, "none", FALSE)
Url(of) == Piece("url", of, FALSE)
Plain(of) == Piece("word", of, FALSE)
Ur == P("ur")
L(of) == Piece("l(", of, FALSE)

Drawn == Doc(<<Open("svg"), End>>, {}, 2)

Entities == [safe |-> <<Word>>, sly |-> <<Url("external")>>, tail |-> <<L("external")>>]

Doctype(unsafe) == [ev |-> "doctype", unsafe |-> unsafe, entities |-> Entities]

----------------------------------------------------------------------------

Metadata == {<<TRUE, FALSE>>, <<FALSE, FALSE>>, <<FALSE, TRUE>>}

\* Orientation tags against turns, metadata policies and optimization.
Oriented ==
  {Asking([File(t) EXCEPT !.tag = tag, !.kinds = IF t = "tiff" THEN {} ELSE {"exif"}],
          [O EXCEPT !.autoOrient = auto, !.rotate = turn, !.strip = m[1], !.preserveExif = m[2],
                    !.optimize = mode, !.format = f]) :
     t \in {"jpeg", "tiff"}, tag \in {1, 3, 5, 6, 8}, auto \in BOOLEAN, turn \in {0, 90, 45},
     m \in Metadata, mode \in {"none", "lossless"}, f \in {"none", "png"}}

\* Tags in the forms that are read and not reset, with the metadata retained.
Unreset ==
  {Asking([File(t) EXCEPT !.tag = 6, !.kinds = {"exif"}, !.form = form],
          [O EXCEPT !.autoOrient = auto, !.rotate = turn, !.strip = FALSE, !.preserveExif = TRUE,
                    !.optimize = mode, !.format = f]) :
     t \in {"png", "webp"}, form \in {"long", "prefixed"}, auto \in BOOLEAN, turn \in {0, 90},
     mode \in {"none", "auto"}, f \in {"none", "jpeg", "png"}}

\* What travels from each container to each other one.
Carried ==
  {Asking([File(t) EXCEPT !.kinds = Kinds, !.tag = 6, !.oversize = big],
          [O EXCEPT !.format = f, !.strip = m[1], !.preserveExif = m[2], !.optimize = mode]) :
     t \in {"jpeg", "png", "webp", "gif", "bmp"}, f \in {"jpeg", "png", "webp", "bmp", "tiff"},
     m \in Metadata, mode \in {"none", "auto"}, big \in {{}, {"xmp"}}}

\* Sizes, boxes and turns around the pixel limits.
Shaped ==
  {Asking([File("png") EXCEPT !.size = s, !.decoded = s],
          [O EXCEPT !.width = w, !.height = h, !.fit = IF w = None \/ h = None THEN "none" ELSE fit,
                    !.withoutEnlargement = keep, !.crop = c, !.rotate = turn,
                    !.position = IF w = None \/ h = None THEN "none" ELSE "bottom"]) :
     s \in {<<1, 5>>, <<3, 2>>}, w \in {None, 1, 4}, h \in {None, 2, 5}, fit \in Fits,
     keep \in BOOLEAN, c \in {<<>>, <<1, 0, 2, 2>>}, turn \in {0, 90, 45}}

\* Every stage of one transform, with a deadline that may pass at any of them.
Watermarked(s, d, position, margin, fault) ==
  <<[DefaultWatermark([File("png") EXCEPT !.size = s, !.decoded = d, !.fault = fault])
       EXCEPT !.position = position, !.margin = margin]>>

Deadlined ==
  {[Asking([File(t) EXCEPT !.size = <<3, 3>>, !.decoded = <<3, 3>>, !.doc = Drawn],
           [O EXCEPT !.deadline = TRUE, !.crop = <<0, 0, 2, 2>>, !.blur = 5, !.sharpen = 5, !.grayscale = TRUE,
                     !.width = 2, !.optimize = mode, !.format = "webp"])
      EXCEPT !.watermark = Watermarked(<<1, 1>>, <<1, 1>>, "center", 0, "none")] :
     t \in {"png", "svg"}, mode \in {"none", "auto", "lossless"}}

\* The quality search, with and without a caller's target or cap.
Searched ==
  {[Asking(File("jpeg"),
           [O EXCEPT !.format = f, !.optimize = mode, !.quality = q,
                     !.target = [metric |-> metric, value |-> IF metric = "none" THEN 0 ELSE 90]])
      EXCEPT !.webpLossy = built] :
     f \in {"jpeg", "webp"}, mode \in {"auto", "lossy", "none"}, q \in {None, 3},
     metric \in {"none", "ssim"}, built \in BOOLEAN}

\* Watermarks at the edge, and every way an input is refused.
Placed ==
  {[Asking(File("jpeg"), O) EXCEPT !.watermark = Watermarked(s, d, p, m, fault)] :
     s \in {<<1, 2>>, <<2, 1>>, <<2, 3>>, <<3, 1>>}, d \in {<<1, 2>>, <<2, 1>>}, p \in {"center", "top", "left", "bottom-right"},
     m \in {0, 1}, fault \in {"none", "pixels"}}

Broken ==
  {Asking([File(t) EXCEPT !.fault = fault, !.frames = n, !.size = s],
          [O EXCEPT !.format = f, !.optimize = mode, !.strip = strip]) :
     t \in {"jpeg", "png", "bmp"}, fault \in {"none", "container", "decoder", "pixels"}, n \in {1, 2},
     s \in {<<2, 3>>, <<9, 9>>}, f \in {"none", "gif", "svg"}, mode \in {"none", "lossless"}, strip \in BOOLEAN}

\* Options at the edges of their rules, for every pair of types.
Refused ==
  {Asking(File(t), [o EXCEPT !.format = f]) :
     t \in {"png", "gif", "svg"}, f \in {"none", "jpeg", "tiff", "svg"},
     o \in {[O EXCEPT !.width = 0], [O EXCEPT !.height = 0], [O EXCEPT !.quality = 0], [O EXCEPT !.quality = 101],
            [O EXCEPT !.quality = 100], [O EXCEPT !.quality = 1, !.optimize = "lossless"],
            [O EXCEPT !.blur = 0], [O EXCEPT !.sharpen = 1001], [O EXCEPT !.crop = <<0, 0, 0, 1>>],
            [O EXCEPT !.fit = "cover", !.width = 1], [O EXCEPT !.position = "top"],
            [O EXCEPT !.withoutEnlargement = TRUE], [O EXCEPT !.preserveExif = TRUE],
            [O EXCEPT !.strip = FALSE, !.preserveExif = TRUE], [O EXCEPT !.optimize = "lossy"],
            [O EXCEPT !.optimize = "auto"], [O EXCEPT !.grayscale = TRUE],
            [O EXCEPT !.target = [metric |-> "ssim", value |-> 101], !.optimize = "auto"],
            [O EXCEPT !.target = [metric |-> "psnr", value |-> 40], !.optimize = "lossless"]}}

\* Every document of a few events after the root's start tag.
Structure ==
  {Open("g"), Open("style"), Open("forbidden"), Open("malformed"), End, Reference("tail"), Reference("unknown"),
   Reference("char"), Text(<<Ur>>), Text(<<L("external")>>), Text(<<Url("fragment")>>), [ev |-> "pi"],
   Elem("empty", "g", <<Attr("href", "sly", <<>>)>>), Elem("empty", "forbidden", <<>>)}

\* Every stylesheet of a few pieces.
Sheet ==
  {Text(<<p>>) : p \in
    {P("image-set("), P("("), P(")"), Piece("string", "external", FALSE), Piece("string", "fragment", TRUE),
     Piece("at", "import", FALSE), Piece("at", "allowed", FALSE), P("block"), P("endblock"), P("semicolon"), Url("svgdata"),
     Url("bad"), Url("raster"), P("decoy"), Piece("comment", "none", TRUE), Ur, L("external"), Piece("xurl(", "external", FALSE)}} \cup {End}

\* Longer stylesheets of the pieces that may touch once others are dropped.
Joining ==
  {Text(<<p>>) : p \in {Ur, L("external"), Piece("at", "import", FALSE), P("semicolon"), P("endblock"), P("decoy")}} \cup {End}

\* Every kind of attribute and value.
Attributed ==
  {Elem("empty", "g", <<Attr(key, ref, v), Attr("fill", "none", <<Word>>)>>) :
     key \in {"malformed", "handler", "xml:base", "href", "style", "fill"}, ref \in {"none", "safe", "sly", "unknown"},
     v \in {<<Url("external")>>, <<Url("svgdata")>>, <<Url("raster")>>, <<Ur, L("external")>>,
            <<Plain("fragment")>>, <<Plain("raster")>>, <<Plain("svgdata")>>,
            <<P("image-set("), P(")"), Piece("string", "external", FALSE)>>}}

Sanitized ==
  {Asking([File("svg") EXCEPT !.doc = d], O) :
     d \in {Doc(<<Doctype(FALSE), Open("svg")>>, Structure, 6),
            Doc(<<Open("svg"), Open("style")>>, Sheet, 5),
            Doc(<<Open("svg"), Open("style")>>, Joining, 7),
            Doc(<<Doctype(FALSE), Open("svg")>>, Attributed, 3),
            Doc(<<Doctype(TRUE), Open("svg")>>, {}, 2),
            Doc(<<[ev |-> "other"], Text(<<Word>>), Open("svg")>>, {}, 3)}}

\* Drawings: the limits, the crop and the turn from dimensions alone.
Drawings ==
  {Asking([File("svg") EXCEPT !.doc = Drawn, !.size = s, !.fault = fault],
          [O EXCEPT !.format = f, !.width = w, !.height = h, !.crop = c, !.rotate = turn, !.blur = b,
                    !.fit = IF w # None /\ h # None THEN "cover" ELSE "none", !.quality = IF f = "webp" THEN 3 ELSE None]) :
     s \in {<<2, 3>>}, f \in {"svg", "png", "webp", "gif"}, w \in {None, 2}, h \in {None, 4},
     c \in {<<>>, <<0, 1, 2, 2>>, <<1, 1, 3, 1>>}, turn \in {0, 90, 45}, b \in {None, 5}, fault \in {"none", "pixels"}}

MCRequests ==
  Oriented \cup Unreset \cup Carried \cup Shaped \cup Deadlined \cup Searched \cup Placed \cup Broken \cup Refused
    \cup Sanitized \cup Drawings \cup {[r EXCEPT !.webpLossy = FALSE] : r \in Drawings}
=============================================================================
