------------------------------ MODULE Multipart ------------------------------
(***************************************************************************)
(* The upload body (src/adapters/server/multipart.rs, and the boundary     *)
(* search of http_parse.rs).                                               *)
(*                                                                         *)
(* A body is a sequence of tokens: "crlf", "--", "boundary" for the text   *)
(* the content type declared, and whole words for everything else: a part  *)
(* header, a number, a piece of a file.  A file may hold any token, the    *)
(* boundary's included.                                                    *)
(***************************************************************************)
EXTENDS SignedUrl

CONSTANT MaxWatermark   \* remote::MAX_WATERMARK_BYTES, in tokens

Opening == <<"--", "boundary">>
Delimiter == <<"crlf">> \o Opening

StartsWith(s, at, prefix) ==
  /\ at + Len(prefix) - 1 <= Len(s)
  /\ SubSeq(s, at, at + Len(prefix) - 1) = prefix

\* find_subslice from a place on; 0 when there is none.
FirstOf(places) == IF places = {} THEN 0 ELSE CHOOSE p \in places : \A q \in places : p <= q

FindSubslice(s, from, needle) ==
  FirstOf({p \in from..Len(s) : StartsWith(s, p, needle)})

\* Mutant: any delimiter ends the part.
FindAnyBoundary(s, from) == FindSubslice(s, from, Delimiter)

\* find_valid_boundary: a delimiter counts only before CRLF or `--`.
FindValidBoundary(s, from) ==
  FirstOf({p \in from..Len(s) :
             /\ StartsWith(s, p, Delimiter)
             /\ \/ StartsWith(s, p + 3, <<"crlf">>)
                \/ StartsWith(s, p + 3, <<"--">>)})

----------------------------------------------------------------------------
(* The parts.                                                              *)

Failed == [ok |-> FALSE, parts |-> <<>>]

\* parse_part_headers, parse_multipart_part_name: the first header is the
\* disposition's name, the second the content type.
PartNames ==
  {"file", "options", "watermark", "watermark_position", "watermark_opacity", "watermark_margin", "extra"}
HeadersOK(headers) == headers # <<>> /\ headers[1] \in PartNames

\* A part, from the cursor at its boundary: its headers end before an empty
\* line, its body before the next boundary that counts; 0 when there is none.
HeadEnd(body, cursor) == FindSubslice(body, cursor + 3, <<"crlf", "crlf">>)
PartHeaders(body, cursor) == SubSeq(body, cursor + 3, HeadEnd(body, cursor) - 1)
PartEnd(body, cursor) == FindValidBoundary(body, HeadEnd(body, cursor) + 2)

PartOK(body, cursor) ==
  /\ StartsWith(body, cursor + 2, <<"crlf">>)
  /\ HeadEnd(body, cursor) # 0 /\ HeadersOK(PartHeaders(body, cursor)) /\ PartEnd(body, cursor) # 0

PartAt(body, cursor) ==
  LET headers == PartHeaders(body, cursor)
  IN [name |-> headers[1], type |-> IF Len(headers) = 1 THEN Absent ELSE headers[3],
      body |-> SubSeq(body, HeadEnd(body, cursor) + 2, PartEnd(body, cursor) - 1)]

\* After the closing boundary: nothing, or one line end.
ClosedAt(body, cursor) ==
  [ok |-> SubSeq(body, cursor + 3, Len(body)) \in {<<>>, <<"crlf">>}, parts |-> <<>>]

WithPart(part, rest) == [ok |-> rest.ok, parts |-> <<part>> \o rest.parts]

\* parse_multipart_form_data, from a boundary to the end of the body.
PartsFrom(body) ==
  LET from[cursor \in 1..(Len(body) + 1)] ==
        IF ~StartsWith(body, cursor, Opening) THEN Failed
        ELSE IF StartsWith(body, cursor + 2, <<"--">>) THEN ClosedAt(body, cursor)
        ELSE IF ~PartOK(body, cursor) THEN Failed
        ELSE WithPart(PartAt(body, cursor), from[PartEnd(body, cursor) + 1])
  IN from[1]

\* parse_multipart_boundary: the media type is refused with 415, a missing or
\* empty boundary with 400.
BoundaryStatus(contentType) ==
  CASE contentType = "multipart"   -> Accepted
    [] contentType = "no-boundary" -> 400
    [] OTHER                       -> 415

----------------------------------------------------------------------------
(* The fields.                                                             *)

NumberIn(text) ==
  CASE text = <<"50">>  -> 50
    [] text = <<"0">>   -> 0
    [] text = <<"999">> -> 999
    [] OTHER            -> Word

HasPart(parts, name) == \E i \in DOMAIN parts : parts[i].name = name
The(parts, name) == parts[CHOOSE i \in DOMAIN parts : parts[i].name = name].body

\* What an options part says: one word of JSON, and documents tells what it
\* holds; an empty part is the default payload.
PayloadIn(body, documents) ==
  IF body = <<>> THEN [preset |-> Absent, fields |-> <<>>] ELSE documents[body[1]]

OptionsIn(body, documents, presets) ==
  LET payload == PayloadIn(body, documents) IN ResolveOptions(payload.fields, payload.preset, presets)

\* The arms of parse_upload_request's match.
FieldStatus(part, documents, presets) ==
  CASE part.name = "file"      -> IF part.body # <<>> THEN Accepted ELSE 400
    [] part.name = "watermark" ->
         IF part.body # <<>> /\ Len(part.body) <= MaxWatermark THEN Accepted ELSE 400
    [] part.name = "options"   ->
         IF \/ part.type \notin {Absent, "json"}
            \/ part.body # <<>> /\ (Len(part.body) > 1 \/ part.body[1] \notin DOMAIN documents)
         THEN 400 ELSE OptionsIn(part.body, documents, presets).status
    [] part.name = "watermark_opacity" ->
         IF TextOK("watermarkOpacity", NumberIn(part.body)) THEN Accepted ELSE 400
    [] part.name = "watermark_margin"  ->
         IF TextOK("watermarkMargin", NumberIn(part.body)) THEN Accepted ELSE 400
    [] part.name = "watermark_position" -> Accepted
    [] OTHER -> 400

\* The loop: the first part that is repeated or wrong decides.
FieldsStatus(parts, documents, presets) ==
  LET status == [i \in DOMAIN parts |->
                   IF \E j \in 1..(i - 1) : parts[j].name = parts[i].name
                   THEN 400 ELSE FieldStatus(parts[i], documents, presets)]
      wrong == FirstOf({i \in DOMAIN parts : status[i] # Accepted})
  IN IF wrong = 0 THEN Accepted ELSE status[wrong]

\* The watermark the parts describe, NoWatermark when there is none.
WatermarkIn(parts) ==
  LET number(name) == IF HasPart(parts, name) THEN NumberIn(The(parts, name)) ELSE None
  IN [url |-> IF HasPart(parts, "watermark") THEN The(parts, "watermark")[1] ELSE Absent,
      position |-> IF HasPart(parts, "watermark_position") THEN The(parts, "watermark_position")[1] ELSE Absent,
      opacity |-> number("watermark_opacity"), margin |-> number("watermark_margin")]

\* resolve_multipart_watermark, and the fields that need a watermark.
UploadWatermarkStatus(w) ==
  IF IF w.url = Absent THEN w = NoWatermark ELSE w.url # "svg" /\ WatermarkStatus(w) = Accepted
  THEN Accepted ELSE 400

\* parse_upload_request, after the loop: what is still missing or wrong.
UploadStatus(form, fields) ==
  IF ~form.ok THEN 400
  ELSE IF fields # Accepted THEN fields
  ELSE IF ~HasPart(form.parts, "file") THEN 400
  ELSE UploadWatermarkStatus(WatermarkIn(form.parts))

\* The file, the options and the watermark it returns.
UploadRead(status, parts, documents, presets) ==
  IF status # Accepted
  THEN [status |-> status, file |-> <<>>, options |-> DefaultOptions, watermark |-> NoWatermark]
  ELSE [status |-> Accepted, file |-> The(parts, "file"),
        options |-> IF HasPart(parts, "options")
                    THEN OptionsIn(The(parts, "options"), documents, presets).options
                    ELSE DefaultOptions,
        watermark |-> DrawnWatermark(WatermarkIn(parts))]

ParseForm(form, documents, presets) ==
  UploadRead(UploadStatus(form, FieldsStatus(form.parts, documents, presets)), form.parts, documents, presets)

\* parse_upload_request
ParseUpload(body, documents, presets) == ParseForm(PartsFrom(body), documents, presets)

\* How a client writes a part of a form: external, RFC 7578.
EncodedPart(p) ==
  Opening \o <<"crlf">> \o (IF p.type = Absent THEN <<p.name>> ELSE <<p.name, "crlf", p.type>>)
    \o <<"crlf", "crlf">> \o p.body \o <<"crlf">>

\* A body that is a form's: its parts one after the other, each where starts
\* says, and the closing boundary.
IsForm(body, parts, starts) ==
  LET n == Len(parts) IN
  /\ Len(starts) = n + 1 /\ starts[1] = 1
  /\ \A i \in 1..n : /\ StartsWith(body, starts[i], EncodedPart(parts[i]))
                    /\ starts[i + 1] = starts[i] + Len(EncodedPart(parts[i]))
  /\ StartsWith(body, starts[n + 1], Opening \o <<"--", "crlf">>)
  /\ Len(body) = starts[n + 1] + 3

\* The boundary a client chooses must not end one of its own parts.
Unambiguous(part) ==
  LET followed == part.body \o <<"crlf">>
  IN \A p \in DOMAIN followed, end \in {<<"crlf">>, <<"--">>} :
       ~StartsWith(followed, p, Delimiter \o end)
=============================================================================
