------------------------------- MODULE Sniff -------------------------------
(***************************************************************************)
(* sniff_artifact (src/core.rs): what truss reads from a file's headers    *)
(* before it decodes anything, and the second reading of the orientation   *)
(* that a transform makes.                                                 *)
(*                                                                         *)
(* A file is its type and its length in bytes.  Its headers are settled as *)
(* they are read: a walk that reaches an offset for the first time chooses *)
(* what stands there and any later walk finds the same, so every chunk     *)
(* list, every lying length and every truncation is one of the files.      *)
(* Offsets and lengths are the real ones.                                  *)
(***************************************************************************)
EXTENDS Integers, FiniteSets, Sequences, TLC

CONSTANT
  ChunkLengths  \* by type, the lengths a header may declare

\* A length field is unsigned.
ASSUME LengthsAssumption == ChunkLengths \in [{"png", "jpeg", "webp", "gif"} -> SUBSET Nat]

VARIABLES
  file,    \* [type, declared, size, opening, table, prolog, root]
  head,    \* the headers read so far, by offset
  walk,    \* [name, at]: the walk under way and the offset of its next header
  meta,    \* what has been read
  sniffed  \* "none" until the sniff ends: "ok", an error, or "panic"

sniffVars == <<file, head, walk, meta, sniffed>>

NoTag == 0
NotExif == -1
NoMeta ==
  [size |-> <<0, 0>>, frames |-> 1, alpha |-> FALSE, exif |-> FALSE, tag |-> NoTag, applied |-> NoTag]

\* The kinds of header each walk tells apart.
KindsOf(type) ==
  CASE type = "png"  -> {"tRNS", "acTL", "eXIf", "IDAT", "IEND", "chunk"}
    [] type = "jpeg" -> {"junk", "SOF", "APP1", "SOS", "RST", "segment"}
    [] type = "webp" -> {"VP8X", "VP8", "VP8L", "EXIF", "ANMF", "chunk"}
    [] type = "gif"  -> {"trailer", "extension", "control", "image", "junk"}
    [] type = "tiff" -> {"short", "long", "unreadable", "field"}
    [] OTHER         -> {}

\* What the payload says: an orientation, a frame count, a flag, a signature.
ValuesOf(kind) ==
  CASE kind \in {"eXIf", "EXIF", "short", "long"} -> {NoTag, 6}
    [] kind = "APP1"                              -> {NotExif, NoTag, 6}
    [] kind = "acTL"                              -> {0, 2}
    [] kind \in {"VP8X", "VP8", "VP8L", "control"} -> {0, 1}
    [] kind = "image"                             -> {0, 6}
    [] OTHER                                      -> {0}

LengthsOf(kind) ==
  IF kind \in {"junk", "SOS", "RST", "trailer", "image", "short", "long", "unreadable", "field"} THEN {0}
  ELSE ChunkLengths[file.type]

Headers == UNION {[k : {kind}, n : LengthsOf(kind), v : ValuesOf(kind)] : kind \in KindsOf(file.type)}

\* A tag that the report and the transform take from the same place.
Tagged(tag) == [meta EXCEPT !.tag = tag, !.applied = tag]

Reads(at) == IF at \in DOMAIN head THEN {head[at]} ELSE Headers

----------------------------------------------------------------------------
(* Steps of a walk.                                                        *)

Go(name, at) == walk' = [name |-> name, at |-> at] /\ UNCHANGED <<file, sniffed>>

\* sniff_artifact: a type the caller declared must be the one that was found.
Verdict(outcome) ==
  IF outcome = "ok" /\ file.declared \notin {"none", file.type} THEN "InvalidInput" ELSE outcome

Ends(outcome) == sniffed' = Verdict(outcome) /\ walk' = [name |-> "end", at |-> 0] /\ file' = file

EndSniff(outcome) == Ends(outcome) /\ UNCHANGED <<head, meta>>

\* A header is read where the walk stands, and stays there for a later walk.
Reading(h) ==
  head' = [p \in DOMAIN head \cup {walk.at} |-> IF p \in DOMAIN head THEN head[p] ELSE h]

----------------------------------------------------------------------------
(* detect_artifact: signatures in order; SVG, which scans text, is last.   *)

SignatureLength ==
  [png |-> 8, jpeg |-> 3, webp |-> 12, avif |-> 16, bmp |-> 26, tiff |-> 4, gif |-> 6]

Detect ==
  /\ walk.name = "detect"
  /\ LET type == file.type
         recognized == type \in DOMAIN SignatureLength /\ file.size >= SignatureLength[type]
     IN \/ ~recognized /\ type # "svg" /\ EndSniff("UnsupportedInputMediaType")
        \/ recognized /\ type = "avif" /\ EndSniff("UnsupportedInputMediaType")
        \/ /\ recognized /\ type # "avif"
           /\ Go(type, CASE type = "jpeg" -> 2 [] type = "webp" -> 12 [] type = "gif" -> 13 + file.table [] OTHER -> 0)
           /\ meta' = IF type = "gif" THEN [meta EXCEPT !.frames = 0] ELSE meta
           /\ UNCHANGED head
        \/ type = "svg" /\ Go("svg", 1) /\ UNCHANGED <<head, meta>>

----------------------------------------------------------------------------
(* PNG: IHDR at a fixed place, whose colour type is file.table, then two   *)
(* walks of the chunk list.                                                *)

SniffPng ==
  /\ walk.name = "png"
  /\ IF file.size < 29 \/ file.opening # "IHDR" THEN EndSniff("DecodeFailed")
     ELSE Go("ancillary", 33) /\ meta' = [meta EXCEPT !.alpha = file.table \in {4, 6}] /\ UNCHANGED head

\* png_ancillary_facts.  An acTL whose header ends the file is read past its end.
PngAncillary ==
  /\ walk.name = "ancillary"
  /\ \/ walk.at + 8 > file.size /\ Go("pngexif", 8) /\ UNCHANGED <<head, meta>>
     \/ /\ walk.at + 8 <= file.size
        /\ \E h \in Reads(walk.at) :
             IF h.k = "acTL" /\ h.n >= 4 /\ walk.at + 12 > file.size
             THEN EndSniff("panic")
             ELSE /\ Reading(h)
                  /\ meta' = CASE h.k = "tRNS" -> [meta EXCEPT !.alpha = TRUE]
                               [] h.k = "acTL" /\ h.n >= 4 -> [meta EXCEPT !.frames = IF h.v = 0 THEN 1 ELSE h.v]
                               [] OTHER -> meta
                  /\ IF h.k \in {"IDAT", "IEND"} THEN Go("pngexif", 8) ELSE Go("ancillary", walk.at + 12 + h.n)

\* png_exif_payload: over the whole list, IHDR included.
PngExif ==
  /\ walk.name = "pngexif"
  /\ \/ walk.at + 8 > file.size /\ EndSniff("ok")
     \/ /\ walk.at + 8 <= file.size
        /\ \E h \in (IF walk.at = 8 THEN [k : {"chunk"}, n : {13, file.size}, v : {0}] ELSE Reads(walk.at)) :
             /\ Reading(h)
             /\ IF walk.at + 8 + h.n > file.size \/ h.k \in {"eXIf", "IEND"}
                THEN /\ Ends("ok")
                     /\ meta' = IF walk.at + 8 + h.n <= file.size /\ h.k = "eXIf"
                                THEN Tagged(h.v) ELSE meta
                ELSE Go("pngexif", walk.at + 12 + h.n) /\ meta' = meta

----------------------------------------------------------------------------
(* JPEG: sniff_jpeg stops at the SOF and keeps the first Exif segment it   *)
(* passed; jpeg_exif_payload, which the transform uses, goes on to the     *)
(* scan.  The marker is two bytes, the length n counts its own two.        *)

\* Mutant: a standalone marker is not stepped over.
AfterStandaloneStuck(at) == at

\* A marker without a length field is two bytes.
AfterStandalone(at) == at + 2

CarriesExif(h) == h.k = "APP1" /\ h.v # NotExif /\ h.n >= 8

\* Mutant: a later Exif segment replaces the one that was kept.
KeepExifLast(h) == IF CarriesExif(h) THEN [meta EXCEPT !.exif = TRUE, !.tag = h.v] ELSE meta

\* exif_payload.is_none(): the first Exif segment counts, with an orientation or not.
KeepExif(h) == IF CarriesExif(h) /\ ~meta.exif THEN [meta EXCEPT !.exif = TRUE, !.tag = h.v] ELSE meta

SegmentBad(h) == h.n < 2 \/ walk.at + 2 + h.n > file.size

\* sniff_jpeg.
SniffJpeg ==
  /\ walk.name = "jpeg"
  /\ IF walk.at + 1 >= file.size THEN EndSniff("DecodeFailed")
     ELSE \E h \in Reads(walk.at) :
       IF h.k = "RST" THEN Reading(h) /\ Go("jpeg", AfterStandalone(walk.at)) /\ meta' = meta
       ELSE IF h.k \in {"junk", "SOS"} \/ SegmentBad(h) \/ (h.k = "SOF" /\ h.n < 7)
       THEN EndSniff("DecodeFailed")
       ELSE /\ Reading(h)
            /\ meta' = KeepExif(h)
            /\ IF h.k = "SOF" THEN Go("jpegexif", 2) ELSE Go("jpeg", walk.at + 2 + h.n)

\* jpeg_exif_payload, for apply_auto_orientation.
JpegExif ==
  /\ walk.name = "jpegexif"
  /\ IF walk.at + 1 >= file.size THEN EndSniff("ok")
     ELSE \E h \in Reads(walk.at) :
       IF h.k = "RST" THEN Reading(h) /\ Go("jpegexif", AfterStandalone(walk.at)) /\ meta' = meta
       ELSE IF h.k \in {"junk", "SOS"} \/ SegmentBad(h) THEN EndSniff("ok")
       ELSE IF CarriesExif(h)
       THEN /\ Reading(h) /\ meta' = [meta EXCEPT !.applied = h.v]
            /\ Ends("ok")
       ELSE Reading(h) /\ meta' = meta /\ Go("jpegexif", walk.at + 2 + h.n)

----------------------------------------------------------------------------
(* WebP: up to the first image chunk, then the list again for the EXIF     *)
(* chunk that follows it, and again for the frames of an animation.        *)

ChunkEnd(h) == walk.at + 8 + h.n
Padding(h) == h.n % 2

\* sniff_webp_vp8x, sniff_webp_vp8, sniff_webp_vp8l; v = 0 is a bad start code.
ImageChunkBad(h) ==
  \/ h.k = "VP8X" /\ h.n < 10
  \/ h.k = "VP8" /\ (h.n < 10 \/ h.v = 0)
  \/ h.k = "VP8L" /\ (h.n < 5 \/ h.v = 0)

\* sniff_webp.
SniffWebp ==
  /\ walk.name = "webp"
  /\ IF walk.at + 8 > file.size THEN EndSniff("DecodeFailed")
     ELSE \E h \in Reads(walk.at) :
       IF ChunkEnd(h) > file.size \/ ImageChunkBad(h) THEN EndSniff("DecodeFailed")
       ELSE /\ Reading(h)
            /\ IF h.k \in {"VP8X", "VP8", "VP8L"}
               THEN /\ Go("webpexif", 12)
                    /\ meta' = IF h.k = "VP8X" /\ h.v = 1 THEN [meta EXCEPT !.frames = 2] ELSE meta
               ELSE Go("webp", ChunkEnd(h) + Padding(h)) /\ meta' = meta

\* webp_exif_payload.
WebpExif ==
  /\ walk.name = "webpexif"
  /\ LET next == IF meta.frames > 1 THEN Go("frames", 12) ELSE Ends("ok")
     IN IF walk.at + 8 > file.size THEN next /\ UNCHANGED <<head, meta>>
        ELSE \E h \in Reads(walk.at) :
          /\ Reading(h)
          /\ IF ChunkEnd(h) > file.size THEN next /\ meta' = meta
             ELSE IF h.k = "EXIF" THEN next /\ meta' = Tagged(h.v)
             ELSE Go("webpexif", ChunkEnd(h) + Padding(h)) /\ meta' = meta

FramesIn(heads) == Cardinality({at \in DOMAIN heads : heads[at].k = "ANMF"})

\* count_webp_frames: an animation is never fewer than two frames.
CountFrames ==
  /\ walk.name = "frames"
  /\ IF walk.at + 8 > file.size
     THEN /\ meta' = [meta EXCEPT !.frames = IF FramesIn(head) > 2 THEN FramesIn(head) ELSE 2]
          /\ Ends("ok") /\ UNCHANGED head
     ELSE \E h \in Reads(walk.at) : Reading(h) /\ Go("frames", ChunkEnd(h) + Padding(h)) /\ meta' = meta

----------------------------------------------------------------------------
(* GIF: blocks, each followed by data sub-blocks that end in an empty one. *)

GifEnds == EndSniff(IF meta.frames = 0 THEN "DecodeFailed" ELSE "ok")

\* sniff_gif.
SniffGif ==
  /\ walk.name = "gif"
  /\ IF file.size < 13 THEN EndSniff("DecodeFailed")
     ELSE IF walk.at >= file.size THEN GifEnds
     ELSE \E h \in Reads(walk.at) :
       CASE h.k = "trailer" -> GifEnds
         [] h.k = "junk" -> EndSniff("DecodeFailed")
         [] h.k \in {"extension", "control"} /\ walk.at + 1 >= file.size -> GifEnds
         [] h.k \in {"extension", "control"} /\ walk.at + 1 < file.size ->
              /\ head' = head @@ (walk.at :> h) @@ ((walk.at + 2) :> [k |-> "data", n |-> h.n, v |-> 0])
              /\ meta' = IF h.k = "control" /\ walk.at + 4 < file.size /\ h.n >= 1 /\ h.v = 1
                         THEN [meta EXCEPT !.alpha = TRUE] ELSE meta
              /\ Go("subblock", walk.at + 2)
         [] h.k = "image" /\ walk.at + 10 > file.size ->
              Ends("ok") /\ meta' = [meta EXCEPT !.frames = @ + 1] /\ UNCHANGED head
         [] OTHER ->
              /\ Reading(h)
              /\ meta' = [meta EXCEPT !.frames = @ + 1]
              /\ Go("subblock", walk.at + 11 + h.v)

\* skip_gif_sub_blocks, one sub-block of any length.
SkipSubBlock ==
  /\ walk.name = "subblock"
  /\ IF walk.at >= file.size THEN EndSniff("DecodeFailed")
     ELSE \E n \in (IF walk.at \in DOMAIN head THEN {head[walk.at].n} ELSE ChunkLengths["gif"]) :
       /\ Go(IF n = 0 THEN "gif" ELSE "subblock", walk.at + 1 + n)
       /\ UNCHANGED <<head, meta>>

----------------------------------------------------------------------------
(* BMP, and TIFF, whose decoder reads its own header.                      *)

\* sniff_bmp.
SniffBmp ==
  /\ walk.name = "bmp"
  /\ EndSniff(IF file.size < 30 THEN "DecodeFailed" ELSE "ok")

\* sniff_tiff: opening is the decoder's verdict, table the count of IFD entries.
SniffTiff ==
  /\ walk.name = "tiff"
  /\ IF file.opening # "decodes" THEN EndSniff("DecodeFailed")
     ELSE Go("ifd", 10) /\ UNCHANGED <<head, meta>>

\* tiff_orientation, one entry of the directory at offset 8.
TiffEntry ==
  /\ walk.name = "ifd"
  /\ IF walk.at >= 10 + 12 * file.table \/ walk.at + 2 > file.size THEN EndSniff("ok")
     ELSE \E h \in Reads(walk.at) :
       IF h.k = "field" THEN Reading(h) /\ Go("ifd", walk.at + 12) /\ meta' = meta
       ELSE /\ Reading(h)
            /\ LET width == IF h.k = "long" THEN 4 ELSE 2
                   tag == IF h.k = "unreadable" \/ walk.at + 8 + width > file.size THEN NoTag ELSE h.v
               IN meta' = Tagged(tag)
            /\ Ends("ok")

----------------------------------------------------------------------------
(* SVG: a prolog of comments, processing instructions and one DOCTYPE, and *)
(* then the root element.  An item is [k, closed].                         *)

\* svg_root_element, one item; skip_doctype finds the end of a declaration.
SvgProlog ==
  /\ walk.name = "svg"
  /\ IF walk.at > Len(file.prolog) THEN EndSniff("UnsupportedInputMediaType")
     ELSE LET item == file.prolog[walk.at]
              again == item.k = "doctype" /\ \E i \in 1..(walk.at - 1) : file.prolog[i].k = "doctype"
          IN IF item.k = "root" THEN Go("svgsize", 0) /\ UNCHANGED <<head, meta>>
             ELSE IF item.k = "text" \/ ~item.closed \/ again THEN EndSniff("UnsupportedInputMediaType")
             ELSE Go("svg", walk.at + 1) /\ UNCHANGED <<head, meta>>

\* to_dimension: whole pixels, at least one and below the largest.
ToDimension(v, max) == IF v >= 1 /\ v < max THEN v ELSE 0

\* svg_intrinsic_size: lengths in pixels, 0 for one that is absent or relative.
IntrinsicSize(root) ==
  LET w == root.width   h == root.height   box == root.box
      size == CASE w > 0 /\ h > 0 -> <<w, h>>
                [] w > 0 /\ h = 0 /\ box # <<0, 0>> -> <<w, (w * box[2]) \div box[1]>>
                [] w = 0 /\ h > 0 /\ box # <<0, 0>> -> <<(h * box[1]) \div box[2], h>>
                [] w = 0 /\ h = 0 -> box
                [] OTHER -> <<0, 0>>
      d == <<ToDimension(size[1], root.max), ToDimension(size[2], root.max)>>
  IN IF 0 \in {d[1], d[2]} THEN <<0, 0>> ELSE d

\* sniff_svg.
SniffSvg ==
  /\ walk.name = "svgsize"
  /\ meta' = [meta EXCEPT !.alpha = TRUE, !.size = IntrinsicSize(file.root)]
  /\ Ends("ok") /\ UNCHANGED head

----------------------------------------------------------------------------

SniffInit ==
  /\ head = <<>> /\ meta = NoMeta /\ sniffed = "none"
  /\ walk = [name |-> "detect", at |-> 0]

SniffNext ==
  \/ Detect \/ SniffPng \/ PngAncillary \/ PngExif \/ SniffJpeg \/ JpegExif
  \/ SniffWebp \/ WebpExif \/ CountFrames \/ SniffGif \/ SkipSubBlock
  \/ SniffBmp \/ SniffTiff \/ TiffEntry \/ SvgProlog \/ SniffSvg
=============================================================================
