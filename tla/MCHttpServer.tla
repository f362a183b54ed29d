---------------------------- MODULE MCHttpServer ----------------------------
(* HttpServer on families of requests, each varied in one way from a plain one. *)
EXTENDS HttpServer, TLC

MCImages ==
  LET image(t, alpha) == [type |-> t, alpha |-> alpha]
  IN [cat |-> image("jpeg", FALSE), logo |-> image("png", TRUE), clip |-> image("gif", FALSE),
      scan |-> image("tiff", FALSE), icon |-> image("svg", TRUE)]
       @@ [r \in {"https-url"} |-> image("jpeg", FALSE)]

----------------------------------------------------------------------------
(* Configurations.                                                         *)

NoBase == [scheme |-> "https", host |-> Absent, port |-> 0]

Plain ==
  [token |-> "t", keys |-> [k1 |-> "s1", k2 |-> "s2"], publicBase |-> NoBase,
   presets |-> [thumb |-> [width |-> 5, format |-> "webp"], anim |-> [format |-> "gif"],
                odd   |-> [width |-> 5, height |-> 5, fit |-> "stretch"],
                raw   |-> [strip |-> FALSE, autoOrient |-> FALSE, rotate |-> 90]],
   negotiates |-> TRUE, preference |-> <<>>, trusted |-> {"p1", "p2"}, compresses |-> FALSE,
   metrics |-> TRUE, metricsToken |-> Absent, healthToken |-> Absent]

Fronted ==
  [Plain EXCEPT !.publicBase = [scheme |-> "https", host |-> "cdn", port |-> 443],
                !.preference = <<"png", "bmp">>, !.trusted = {"p1"}, !.compresses = TRUE,
                !.metricsToken = "m", !.healthToken = "h"]

Bare ==
  [Plain EXCEPT !.token = Absent, !.keys = <<>>, !.presets = <<>>, !.negotiates = FALSE,
                !.trusted = {}, !.metrics = FALSE]

\* The configuration under which several requests are recorded at a time.
Busy == [Bare EXCEPT !.keys = [k1 |-> "s1"]]

MCMaxRequests(c) == IF c = Busy THEN 3 ELSE 1

----------------------------------------------------------------------------
(* Signed calls.                                                           *)

O == DefaultOptions
Of(kind, reference) == [kind |-> kind, reference |-> reference, version |-> Absent]
Cdn == [scheme |-> "https", host |-> "cdn", port |-> 0, prefix |-> ""]

Call ==
  [base |-> Cdn, method |-> "GET", source |-> Of("path", "cat"), options |-> O, preset |-> Absent,
   watermark |-> NoWatermark, keyId |-> "k1", secret |-> "s1", expires |-> 2]

Both == [O EXCEPT !.width = 5, !.height = 7]
Target(metric, value) == [metric |-> metric, value |-> value]

OptionSets ==
  {[O EXCEPT !.width = w] : w \in {0, 5, U32Max, U32Max + 1}}
    \cup {[Both EXCEPT !.fit = f, !.position = p] : f \in {"none", "cover"}, p \in {"none", "top"}}
    \cup {[O EXCEPT !.fit = "cover"], [O EXCEPT !.crop = <<1, 0, 5, 5>>], [O EXCEPT !.crop = <<0, 0, 0, 5>>],
          [O EXCEPT !.background = "white"], [O EXCEPT !.grayscale = TRUE]}
    \cup {[O EXCEPT !.format = f, !.quality = q] : f \in {"none", "webp", "png", "gif", "svg"}, q \in {None, 0, 80}}
    \cup {[O EXCEPT !.optimize = m, !.target = t] :
            m \in {"none", "lossy", "lossless"}, t \in {Target("none", 0), Target("ssim", 98)}}
    \cup {[O EXCEPT !.rotate = r] : r \in {90, 450, -90, 360}}
    \cup {[O EXCEPT !.strip = s, !.preserveExif = p, !.autoOrient = a] : s, p, a \in BOOLEAN}
    \cup {[O EXCEPT !.blur = b] : b \in {10, 2000}} \cup {[O EXCEPT !.sharpen = 10]}
    \cup {[o EXCEPT !.withoutEnlargement = TRUE] : o \in {O, Both}}

Watermarks ==
  {[NoWatermark EXCEPT !.url = u] : u \in {"https-url", "ftp-url"}}
    \cup {[url |-> "https-url", position |-> p, opacity |-> a, margin |-> m] :
            p \in {Absent, "top", "nowhere"}, a \in {None, 0, 30}, m \in {None, 0, U32Max}}
    \cup {[NoWatermark EXCEPT !.opacity = 30]}

Bases ==
  {[Cdn EXCEPT !.port = p] : p \in {443, 8080}}
    \cup {[Cdn EXCEPT !.scheme = "http", !.port = p] : p \in {0, 80}}
    \cup {[Cdn EXCEPT !.prefix = "/img"], [Cdn EXCEPT !.host = "other"], [Cdn EXCEPT !.scheme = "ftp"]}

Calls ==
  {[Call EXCEPT !.options = o] : o \in OptionSets}
    \cup {[Call EXCEPT !.watermark = w] : w \in Watermarks}
    \cup {[Call EXCEPT !.base = b] : b \in Bases}
    \cup {[Call EXCEPT !.preset = p, !.options = o] :
            p \in {Absent, "thumb", "raw", "anim", "odd", "gone", ""},
            o \in {O, [O EXCEPT !.width = 7], [O EXCEPT !.rotate = 180], [O EXCEPT !.preserveExif = TRUE]}}
    \cup {[Call EXCEPT !.source = s] :
            s \in {Of("path", r) : r \in {"logo", "clip", "scan", "icon", "gone", ""}}
              \cup {Of("url", u) : u \in {"https-url", "ftp-url"}}}
    \cup {[Call EXCEPT !.source.version = v] : v \in {"v1", ""}}
    \cup {[Call EXCEPT !.expires = x] : x \in {0, 1, 3}}
    \cup {[Call EXCEPT !.keyId = k, !.secret = s] : k \in {"k1", "k2", "k3", ""}, s \in {"s1", "s2", ""}}
    \cup {[Call EXCEPT !.method = m] : m \in {"HEAD", "POST"}}
    \cup {[Call EXCEPT !.source = Of("path", "icon"), !.watermark.url = "https-url"]}

----------------------------------------------------------------------------
(* How a request arrives.                                                  *)

Request ==
  [method |-> "GET", path |-> "/health", query |-> <<>>, repeated |-> FALSE,
   host |-> [host |-> "cdn", port |-> 0], token |-> Absent, accept |-> <<>>, encodings |-> <<>>,
   ifNoneMatch |-> {}, peer |-> "c1", forwarded |-> <<>>, realIp |-> Absent,
   contentType |-> Absent, body |-> <<>>]

Sent(request) ==
  [signer |-> "nobody", call |-> Call, client |-> "c1", hops |-> <<>>, parts |-> <<>>,
   starts |-> <<>>, request |-> request]

Fetched(signer, call) ==
  LET url == Sign(signer, call)
  IN [Sent([Request EXCEPT !.method = url.method, !.path = url.path, !.query = url.query,
                           !.host = HostHeader(url.base)])
        EXCEPT !.signer = signer, !.call = call]

Change(input, name, value) ==
  [input EXCEPT !.request.query = Over(One(name, value), @)]

\* What may happen to a signed URL between its signer and the server.
Altered(input) ==
  {[input EXCEPT !.request.method = m] : m \in {"GET", "HEAD", "POST", "OPTIONS"}}
    \cup {[input EXCEPT !.request.path = p] : p \in {"/images/by-url", "/img/images/by-path"}}
    \cup {[input EXCEPT !.request.query = Without(@, {n})] :
            n \in {"keyId", "expires", "signature", "path", "width"}}
    \cup {Change(input, n, v) : n \in {"width"}, v \in {6, Word}}
    \cup {Change(input, "expires", v) : v \in {3, Word}}
    \cup {Change(input, "keyId", "k2"), Change(input, "path", "logo"), Change(input, "grayscale", "yes"),
          Change(input, "unknown", 1), Change(input, "watermarkOpacity", 30)}
    \cup {[input EXCEPT !.request.query["signature"].case = "upper"],
          [input EXCEPT !.request.repeated = TRUE],
          [input EXCEPT !.request.host = [host |-> "internal", port |-> 8080]],
          [input EXCEPT !.request.host = [host |-> Absent, port |-> 0]]}

Wide5 == [Call EXCEPT !.options.width = 5]

SignedInputs ==
  {Fetched(s, c) : s \in {"cli"}, c \in {k \in Calls : Signs("cli", k)}}
    \cup {Fetched(s, c) : s \in {"js"}, c \in {k \in Calls : Signs("js", k)}}
    \cup UNION {Altered(Fetched("cli", c)) : c \in {Wide5, [Wide5 EXCEPT !.expires = 1]}}

----------------------------------------------------------------------------
(* Accept and conditional headers.                                         *)

Media(r, q) == [range |-> r, q |-> q]
Accepts ==
  {<<>>, <<Media("blank", 1000)>>, <<Media("any", 1000)>>, <<Media("image", 1000)>>, <<Media("other", 1000)>>,
   <<Media("webp", 1000), Media("png", 1000)>>, <<Media("png", 900), Media("jpeg", 1000), Media("any", 500)>>,
   <<Media("webp", 0), Media("image", 500)>>, <<Media("webp", 0), Media("any", 500)>>,
   <<Media("jpeg", NoQ), Media("png", 1)>>, <<Media("gif", 1000)>>, <<Media("bmp", 1000), Media("svg", 1000)>>,
   <<Media("image", 800), Media("jpeg", 800)>>, <<Media("jpeg", 0)>>}

Accepting ==
  {[Fetched("cli", [Call EXCEPT !.source = Of("path", r)]) EXCEPT !.request.accept = a, !.request.ifNoneMatch = n] :
     r \in {"cat", "logo", "clip", "scan", "icon"}, a \in Accepts, n \in {{}, {"current"}, {"stale"}}}

----------------------------------------------------------------------------
(* Forwarding headers: proxies append, the client writes what it likes.    *)

Claims == {<<>>, <<"c9">>, <<"p1">>, <<"junk">>, <<"c9", "p2">>}
Routes == {<<>>, <<"p1">>, <<"p1", "p2">>, <<"p2", "x1">>}

\* What the server sees of a client behind proxies, the nearest proxy first.
Behind(hops, claims, realIp, request) ==
  LET path == hops \o <<"c1">>
      n == Len(path)
  IN [Sent([request EXCEPT !.peer = path[1], !.realIp = realIp,
                           !.forwarded = claims \o [i \in 1..(n - 1) |-> path[n - i + 1]]])
        EXCEPT !.hops = hops]

Forwarded ==
  {Behind(h, c, r, [Request EXCEPT !.path = p]) :
     h \in Routes, c \in Claims, r \in {Absent, "c9"}, p \in {"/images/by-path", "/nowhere", "/health"}}

----------------------------------------------------------------------------
(* The private routes.                                                     *)

Document(source, fields, preset, watermark) ==
  [source |-> source, fields |-> fields, preset |-> preset, watermark |-> watermark]

MCTransformDocuments ==
  [plain  |-> Document(Of("path", "cat"), <<>>, Absent, NoWatermark),
   sized  |-> Document(Of("url", "https-url"), [width |-> 7], "thumb", [NoWatermark EXCEPT !.url = "https-url"]),
   gif    |-> Document(Of("path", "clip"), [format |-> "gif"], Absent, NoWatermark),
   svg    |-> Document(Of("path", "cat"), [format |-> "svg"], Absent, NoWatermark),
   faulty |-> Document(Of("path", "cat"), [width |-> 0], Absent, NoWatermark),
   lost   |-> Document(Of("path", "cat"), <<>>, "gone", NoWatermark),
   marked |-> Document(Of("path", "cat"), <<>>, Absent,
                       [NoWatermark EXCEPT !.url = "https-url", !.opacity = 0]),
   odd    |-> Document(Of("path", "cat"), [fit |-> "stretch", width |-> 5, height |-> 5], Absent, NoWatermark)]

MCUploadDocuments ==
  [sized |-> [preset |-> Absent, fields |-> [width |-> 5]],
   named |-> [preset |-> "thumb", fields |-> <<>>],
   lost  |-> [preset |-> "gone", fields |-> <<>>]]

Posted(path, body) == [Request EXCEPT !.method = "POST", !.path = path, !.token = "t", !.body = body]

Transforms ==
  {Sent([Posted("/images:transform", <<d>>) EXCEPT !.contentType = "json"]) :
     d \in DOMAIN MCTransformDocuments \cup {"truncated"}}
    \cup {Sent([Posted("/images:transform", <<"plain">>) EXCEPT !.contentType = "json", !.token = t, !.query = q]) :
            t \in {"t", "wrong", Absent}, q \in {<<>>, [width |-> 5]}}
    \cup {Sent([Posted("/images:transform", <<"plain">>) EXCEPT !.contentType = "text"])}
    \cup {Sent([Posted("/images:transform", <<>>) EXCEPT !.contentType = "json"])}

Part(name, body) == [name |-> name, type |-> Absent, body |-> body]

\* Files with the boundary's text in them; the last two cannot be told apart
\* from the end of the part.
Files ==
  {<<"cat">>, <<"cat", "crlf">>, <<"cat", "--", "boundary", "crlf">>, <<"cat", "crlf", "--", "boundary", "x">>,
   <<"cat", "crlf", "--", "boundary", "x", "crlf", "crlf", "--">>,
   <<"cat", "crlf", "--", "boundary">>, <<"cat", "crlf", "--", "boundary", "--">>}

Mark == Part("watermark", <<"logo">>)

Forms ==
  {<<Part("file", f)>> : f \in Files}
    \cup {<<Part("options", <<"sized">>), Part("file", f)>> : f \in Files}
    \cup {<<Part("file", f), Mark>> : f \in Files}
    \cup {<<[name |-> "options", type |-> t, body |-> b], Part("file", <<"cat">>)>> :
            t \in {Absent, "json", "text"}, b \in {<<>>, <<"named">>, <<"lost">>, <<"other">>}}
    \cup {<<Part("file", <<"cat">>), Mark, Part(n, b)>> :
            n \in {"watermark_position", "watermark_opacity", "watermark_margin"}, b \in {<<"50">>, <<"0">>, <<"999">>, <<"top">>}}
    \cup {<<Part("file", <<"cat">>), Part("watermark_margin", <<"50">>)>>, <<Mark>>, <<Part("file", <<>>)>>,
          <<Part("file", <<"cat">>), Part("file", <<"logo">>)>>, <<Part("file", <<"cat">>), Part("extra", <<"x">>)>>,
          <<Part("file", <<"cat">>), Part("watermark", <<"logo", "x", "x">>)>>,
          <<Part("file", <<"cat">>), Part("watermark", <<"svg">>)>>}

Encoded(parts) ==
  LET all[i \in 0..Len(parts)] == IF i = 0 THEN <<>> ELSE all[i - 1] \o EncodedPart(parts[i])
  IN all[Len(parts)] \o Opening \o <<"--", "crlf">>

Starts(parts) ==
  LET at[i \in 1..(Len(parts) + 1)] == IF i = 1 THEN 1 ELSE at[i - 1] + Len(EncodedPart(parts[i - 1]))
  IN at

Upload(parts) ==
  [Sent([Posted("/images", Encoded(parts)) EXCEPT !.contentType = "multipart"])
     EXCEPT !.parts = parts, !.starts = Starts(parts)]

Uploads ==
  {Upload(f) : f \in Forms}
    \cup {Sent([Posted("/images", b) EXCEPT !.contentType = c]) :
            b \in {<<>>, <<"--", "boundary", "crlf", "file", "crlf">>, <<"--", "boundary", "--", "x">>},
            c \in {"multipart", "no-boundary", "json"}}
    \cup {[Upload(<<Part("file", <<"cat">>)>>) EXCEPT !.request.token = "wrong"],
          [Upload(<<Part("file", <<"cat">>)>>) EXCEPT !.request.query = [width |-> 5]]}

----------------------------------------------------------------------------

Operational ==
  {Sent([Request EXCEPT !.path = p, !.method = m, !.token = t, !.encodings = e]) :
     p \in Probes \cup {"/metrics", "/nowhere", "/images"}, m \in {"GET", "HEAD", "OPTIONS", "DELETE"},
     t \in {Absent, "h", "m"},
     e \in {<<>>, <<[name |-> "gzip", q |-> 1]>>, <<[name |-> "*", q |-> 1], [name |-> "gzip", q |-> 0]>>}}

AllInputs == SignedInputs \cup Accepting \cup Forwarded \cup Transforms \cup Uploads \cup Operational

MCInputs(c) ==
  IF c = Busy
  THEN {Sent(Request), Sent([Request EXCEPT !.path = "/images/by-path"])}
  ELSE AllInputs
MCConfigs == {Plain, Fronted, Bare, Busy}
MCRoutes == Probes \cup {"/metrics", "unknown"} \cup Public \cup Private
MCBounds == <<1, 2>>
Symmetric == Permutations(Workers)
=============================================================================
