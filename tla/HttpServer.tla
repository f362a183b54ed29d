----------------------------- MODULE HttpServer -----------------------------
(***************************************************************************)
(* A request on its way through the server, from the two signers and the   *)
(* proxies in front to the answer and its metrics.  This module composes   *)
(* SignedUrl, Multipart, Negotiation and Metrics along handle_stream,      *)
(* route_request (routing.rs) and the handlers (handler.rs).               *)
(*                                                                         *)
(* Handling a request reads nothing another worker writes except the       *)
(* limiter, the caches and the transform slots, which RateLimiter,         *)
(* TransformCache and TransformPipeline model; so it is one step here, and *)
(* the limiter's verdict an input.  Recording the answer is not one step.  *)
(***************************************************************************)
EXTENDS Multipart, Negotiation, Metrics

CONSTANTS
  Configs,            \* the configurations a server may run with
  Inputs(_),          \* what reaches a server: depends on its configuration
  Clock,              \* the times at which a request may be verified
  TransformDocuments, \* JSON bodies of /images:transform, by name
  UploadDocuments,    \* JSON of the upload's options part, by name
  Images,             \* what is stored under each reference
  MaxRequests(_)      \* bound on the requests served under a configuration

VARIABLES
  config,     \* ServerConfig, fixed while the server runs
  exchange    \* the exchange just finished, NoExchange once it is recorded

vars == <<config, exchange, metrics>>

----------------------------------------------------------------------------
(* Routing.                                                                *)

Probes == {"/health", "/health/live", "/health/ready"}
Public == {"/images/by-path", "/images/by-url"}
Private == {"/images:transform", "/images"}

\* ROUTES
Known(path) == path \in Probes \cup {"/metrics"} \cup Public \cup Private
Serves(path, method) == method \in (IF path \in Private THEN {"POST"} ELSE {"GET", "HEAD"})

\* is_rate_limited: a path with no route is limited too.
IsRateLimited(path) == path \notin Probes \cup {"/metrics"}

\* classify_route_from_path
ClassifyRoute(path) == IF Known(path) THEN path ELSE "unknown"

\* Mutant: the walk starts at the end the client writes.
ResolveClientIpLeftmost(request, trusted) ==
  LET candidates == {i \in DOMAIN request.forwarded :
                       request.forwarded[i] \notin trusted \cup {"junk"}}
  IN IF request.peer \notin trusted THEN request.peer
     ELSE IF candidates # {}
     THEN request.forwarded[CHOOSE i \in candidates : \A j \in candidates : i <= j]
     ELSE IF request.realIp \notin trusted \cup {"junk", Absent} THEN request.realIp
     ELSE request.peer

\* resolve_client_ip: from the right, the first entry that is an address and
\* no trusted proxy.
ResolveClientIp(request, trusted) ==
  LET candidates == {i \in DOMAIN request.forwarded :
                       request.forwarded[i] \notin trusted \cup {"junk"}}
  IN IF request.peer \notin trusted THEN request.peer
     ELSE IF candidates # {}
     THEN request.forwarded[CHOOSE i \in candidates : \A j \in candidates : i >= j]
     ELSE IF request.realIp \notin trusted \cup {"junk", Absent} THEN request.realIp
     ELSE request.peer

----------------------------------------------------------------------------
(* Answers.  `work` is what was done before answering: a cache asked or a  *)
(* source read, for which source, options and watermark.                   *)

NoWork == [done |-> FALSE]
Work(by, source, options, watermark) ==
  [done |-> TRUE, by |-> by, source |-> source, options |-> options, watermark |-> watermark]

Answer(status, kind, work) ==
  [status |-> status, kind |-> kind, long |-> kind # "none", vary |-> {}, close |-> FALSE,
   format |-> "none", work |-> work]

\* problem_response and the constructors built on it.
Problem(status) == Answer(status, "problem", NoWork)

\* A refusal from the headers alone, after which the connection closes.
Refusal(status) == [Problem(status) EXCEPT !.close = TRUE]

\* bearer tokens of the metrics and health routes: none configured, none asked.
TokenOK(expected, provided) == expected = Absent \/ provided = expected

----------------------------------------------------------------------------
(* The image a request ends in: transform_source_bytes.                    *)

\* What the codecs make of a format they are given (codecs/mod.rs).
TransformStatus(o, image) ==
  CASE o.format = "gif" \/ (o.format = "svg" /\ image.type # "svg") -> 415
    [] o.format # "gif" /\ ValidateWithInput(o, image.type) # "ok" -> 400
    [] OTHER -> 200

\* The answer once the format is settled: the transform's refusal, or the image
\* unless the client has it.
Represented(request, policy, work, image, format) ==
  LET mayVary == work.options.format = "none" /\ config.negotiates
      status == IF image.type = "svg" /\ work.watermark.url # Absent THEN 400
                ELSE TransformStatus([work.options EXCEPT !.format = format], image)
      fresh == policy = "public" /\ IfNoneMatchMatches(request.ifNoneMatch, "current")
  IN IF status # 200 THEN Answer(status, "problem", work)
     ELSE [Answer(IF fresh THEN 304 ELSE 200, IF fresh THEN "none" ELSE "image", work)
             EXCEPT !.vary = ImageHeaders(format, policy, mayVary).vary, !.format = format]

\* After negotiation, which refuses, names a format or leaves it to the options.
Negotiated(request, policy, work, image, choice) ==
  IF choice = "refused" THEN [Answer(406, "problem", work) EXCEPT !.vary = {"Accept"}]
  ELSE Represented(request, policy, work, image,
                   IF choice = "none" THEN OutputFormat(work.options, image.type) ELSE choice)

ImageAnswer(request, policy, work) ==
  LET image == Images[work.source.reference] IN
  IF work.source.reference \notin DOMAIN Images THEN Answer(404, "problem", work)
  ELSE Negotiated(request, policy, work, image,
                  IF work.options.format = "none" /\ config.negotiates
                  THEN NegotiateOutputFormat(request.accept, image, config.preference) ELSE "none")

----------------------------------------------------------------------------
(* The handlers.                                                           *)

\* handle_public_get_request, behind the signature.
PublicAnswer(request, parsed) ==
  IF parsed.status # Accepted THEN Problem(parsed.status)
  ELSE ImageAnswer(request, "public", Work("signature", parsed.source, parsed.options, parsed.watermark))

\* handle_public_get_request.  The order matters: nothing is looked up or
\* fetched before the signature holds.
HandlePublicGet(request, kind, now) ==
  LET authorized == AuthorizeSigned(request, request.query, config, now)
  IN IF request.repeated THEN Problem(400)
     ELSE IF authorized # Accepted THEN Problem(authorized)
     ELSE PublicAnswer(request, ParsePublicGet(request.query, kind, config.presets))

\* handle_transform_request, from its document on.
TransformAnswer(request, document, resolved) ==
  LET watermark == WatermarkStatus(document.watermark)
  IN IF resolved.status # Accepted THEN Problem(resolved.status)
     ELSE IF watermark # Accepted THEN Problem(watermark)
     ELSE ImageAnswer(request, "private",
            Work("token", document.source, resolved.options, DrawnWatermark(document.watermark)))

\* handle_transform_request
HandleTransform(request) ==
  LET authorized == AuthorizeRequest(request, config)
      document == TransformDocuments[request.body[1]]
  IN IF authorized # Accepted THEN Problem(authorized)
     ELSE IF DOMAIN request.query # {} THEN Problem(400)
     ELSE IF request.contentType # "json" THEN Problem(415)
     ELSE IF request.body = <<>> \/ request.body[1] \notin DOMAIN TransformDocuments THEN Problem(400)
     ELSE TransformAnswer(request, document,
            ResolveOptions(document.fields, document.preset, config.presets))

\* handle_upload_request, from the form on: the source is the file itself.
UploadAnswer(request, upload) ==
  IF upload.status # Accepted THEN Problem(upload.status)
  ELSE ImageAnswer(request, "private",
         Work("token", [kind |-> "file", reference |-> upload.file[1], version |-> Absent,
                        bytes |-> upload.file],
              upload.options, upload.watermark))

\* handle_upload_request
HandleUpload(request) ==
  LET authorized == AuthorizeRequest(request, config)
      boundary == BoundaryStatus(request.contentType)
  IN IF authorized # Accepted THEN Problem(authorized)
     ELSE IF DOMAIN request.query # {} THEN Problem(400)
     ELSE IF boundary # Accepted THEN Problem(boundary)
     ELSE UploadAnswer(request, ParseUpload(request.body, UploadDocuments, config.presets))

\* handle_metrics_request
HandleMetrics(request) ==
  CASE ~config.metrics -> Problem(404)
    [] config.metrics /\ ~TokenOK(config.metricsToken, request.token) -> Problem(401)
    [] OTHER -> Answer(200, "text", NoWork)

\* The handlers of ROUTES.
Handle(request, now) ==
  IF request.path \in Probes THEN Answer(200, "json", NoWork)
  ELSE IF request.path = "/metrics" THEN HandleMetrics(request)
  ELSE IF request.path = "/images/by-path" THEN HandlePublicGet(request, "path", now)
  ELSE IF request.path = "/images/by-url" THEN HandlePublicGet(request, "url", now)
  ELSE IF request.path = "/images:transform" THEN HandleTransform(request)
  ELSE HandleUpload(request)

\* route_request
RouteRequest(request, now) ==
  IF ~Known(request.path) THEN Problem(404)
  ELSE IF request.method = "OPTIONS" THEN Answer(204, "none", NoWork)
  ELSE IF ~Serves(request.path, request.method) THEN Problem(405)
  ELSE Handle(request, now)

\* handle_stream between the headers and the body: what is refused from the
\* headers alone, and the route the refusal is counted under.
Early(request, allowed) ==
  LET read == request.method \in {"GET", "HEAD"} IN
  CASE IsRateLimited(request.path) /\ ~allowed ->
         [status |-> 429, route |-> ClassifyRoute(request.path)]
    [] (~IsRateLimited(request.path) \/ allowed) /\ request.method = "POST" /\ request.path \in Private ->
         [status |-> AuthorizeRequest(request, config), route |-> "unknown"]
    [] read /\ request.path = "/metrics" ->
         [status |-> IF ~config.metrics THEN 404
                     ELSE IF TokenOK(config.metricsToken, request.token) THEN Accepted ELSE 401,
          route |-> "/metrics"]
    [] read /\ request.path = "/health" ->
         [status |-> IF TokenOK(config.healthToken, request.token) THEN Accepted ELSE 401,
          route |-> "/health"]
    [] OTHER -> [status |-> Accepted, route |-> "unknown"]

----------------------------------------------------------------------------
(* What reaches a server.                                                  *)

Signed(input) == input.signer \in {"cli", "js"}

\* The request a signed URL asks for when it arrives as it was signed.
Intact(input) ==
  LET url == Sign(input.signer, input.call) IN
  /\ input.request.method = url.method /\ input.request.path = url.path
  /\ input.request.query = url.query /\ ~input.request.repeated

\* The addresses a request really came through, nearest first: the peer, and
\* behind each trusted proxy the one that connected to it.
CameFrom(input) == input.hops \o <<input.client>>

\* A query is read into a map, and a signature is a MAC written in some case.
QueryRead(query) ==
  /\ query = [n \in DOMAIN query |-> query[n]]
  /\ "signature" \in DOMAIN query =>
       query["signature"] = [mac |-> query["signature"].mac, case |-> query["signature"].case]

\* HMAC-SHA256 cannot be forged: a MAC under a secret of the server is the one
\* a signer made for the call the request is traced to.
Unforged(input, keys) ==
  LET query == input.request.query
      call == input.call
  IN ("signature" \in DOMAIN query /\ \E k \in DOMAIN keys : query["signature"].mac.secret = keys[k]) =>
       /\ Signed(input) /\ Signs(input.signer, call)
       /\ query["signature"].mac = Sign(input.signer, call).query["signature"].mac

\* A trusted proxy appends the address that connected to it, so behind trusted
\* proxies only, the end of the header is the path the request took; what is
\* in front of that the client may have written.
Appended(input, trusted) ==
  LET path == CameFrom(input)
      n == Len(input.request.forwarded)
  IN /\ input.request.peer = path[1]
     /\ \A i \in 2..Len(path) : (\A j \in 1..(i - 1) : path[j] \in trusted) =>
          /\ i - 1 <= n /\ input.request.forwarded[n - i + 2] = path[i]
          /\ path[i] # "junk"

\* What the arguments of a signer are made of: the flags are flags, the numbers
\* integers, the rotation one a reader of integers holds; a base URL has a host
\* and a signer is given no deadline.
CallRead(call) ==
  LET o == call.options
      w == call.watermark
      s == call.source
  IN /\ s = [kind |-> s.kind, reference |-> s.reference, version |-> s.version]
     /\ s.kind \in {"path", "url"} /\ call.expires \in Nat /\ call.base.host # Absent
     /\ w = [url |-> w.url, position |-> w.position, opacity |-> w.opacity, margin |-> w.margin]
     /\ w.opacity \in Int /\ w.margin \in Int
     /\ o = [n \in DOMAIN DefaultOptions |-> o[n]] /\ o.deadline = FALSE
     /\ \A n \in FlagNames : o[n] \in BOOLEAN
     /\ \A n \in {"width", "height", "quality", "blur", "sharpen"} : o[n] \in Int
     /\ o.rotate \in (-I64Max - 1)..I64Max

\* What a client sent as a form: the body holds its parts, with the names and
\* types a header line holds.
FormSent(input) ==
  LET parts == input.parts IN
  /\ parts \in Seq([name : PartNames, type : STRING \ {"crlf"}, body : Seq(STRING)])
  /\ input.starts \in Seq(Nat \ {0}) /\ input.request.body \in Seq(STRING)
  /\ IsForm(input.request.body, parts, input.starts)

ASSUME InputAssumption ==
  /\ Clock \subseteq Int
  /\ \A r \in DOMAIN Images : Images[r].type \in MediaTypes
  /\ \A c \in Configs :
       /\ c.preference \in Seq(MediaTypes)
       /\ c.publicBase.host # Absent => c.publicBase.scheme \in {"http", "https"}
  /\ Probes \cup {"/metrics", "unknown"} \cup Public \cup Private \subseteq MetricRoutes
  /\ \A c \in Configs : \A input \in Inputs(c) :
       /\ input.hops \in Seq(STRING) /\ input.request.forwarded \in Seq(STRING)
       /\ CallRead(input.call) /\ QueryRead(input.request.query)
       /\ Unforged(input, c.keys) /\ Appended(input, c.trusted)
       /\ input.parts # <<>> => FormSent(input)

----------------------------------------------------------------------------
(* The worker.                                                             *)

NoExchange == [finished |-> FALSE]

Init ==
  /\ config \in Configs
  /\ exchange = NoExchange
  /\ MetricsInit

InFlight == Cardinality({w \in Workers : recording[w] # Idle})

\* What a request leaves on show: who was charged for it, the answer, and what
\* of it was written.
Exchange(input, now, answer) ==
  LET request == input.request
      gzip == config.compresses /\ AcceptsGzip(request.encodings) /\ answer.status # 429
  IN [finished |-> TRUE, input |-> input, now |-> now, answer |-> answer,
      charged |-> IF IsRateLimited(request.path)
                  THEN {ResolveClientIp(request, config.trusted)} ELSE {},
      written |-> WriteResponse(answer, request.method = "HEAD", gzip)]

\* One request: limited, refused early or routed, and written out.
Serve(w) ==
  /\ InFlight + Len(recorded) < MaxRequests(config)
  /\ \E input \in Inputs(config), now \in Clock, allowed \in BOOLEAN :
       \E early \in {Early(input.request, allowed)} :
       \E answer \in {IF early.status # Accepted THEN Refusal(early.status)
                                                 ELSE RouteRequest(input.request, now)} :
         /\ exchange' = Exchange(input, now, answer)
         /\ StartRecording(w, IF early.status # Accepted THEN early.route
                              ELSE ClassifyRoute(input.request.path),
                           answer.status, early.status # Accepted)
  /\ UNCHANGED <<config, requestsTotal, routeTotal, statusTotal, count, sum, buckets, recorded>>

\* A head that cannot be read is answered with the refusal that Connection has
\* of it, before any of the above, and the connection closes; nothing counts it.
RefuseHead(w) ==
  /\ recording[w] = Idle
  /\ exchange' = NoExchange
  /\ UNCHANGED <<config, metrics>>

RecordStep(w) ==
  /\ Record(w)
  /\ exchange' = NoExchange
  /\ UNCHANGED config

Next == \E w \in Workers : Serve(w) \/ RefuseHead(w) \/ RecordStep(w)

Spec == Init /\ [][Next]_vars

----------------------------------------------------------------------------
(* Properties.                                                             *)

\* What the call meant: the options it sets, else its preset's, else the
\* defaults.  An option at its default cannot be told from one not set.
Meant(call) ==
  LET preset == IF call.preset = Absent THEN <<>> ELSE config.presets[call.preset]
      asked == Settled(call.options)
  IN ResolvedMetadata([n \in DOMAIN DefaultOptions |->
       IF asked[n] # DefaultOptions[n] THEN asked[n] ELSE Get(preset, n, DefaultOptions[n])])

\* What into_options lets through, whoever asks.
Taken(o) == NamesOK(o) /\ o.format # "gif" /\ ValidateWithoutInput(o) = "ok"

\* A signed URL does what it was signed for: whichever signer made it, with
\* whatever prefix, port or proxy in front, a URL signed with a key of this
\* server for a method it serves and fetched by its expiry gets the source, the
\* options and the watermark of the call, provided the server would take them
\* at all: a preset may name what it refuses
\* (signing.rs, index.js, auth.rs 60-127, handler.rs 1346-1428).
SignedServed ==
  exchange.finished =>
    LET input == exchange.input
        call == input.call
    IN (/\ Signed(input) /\ Intact(input) /\ call.method \in {"GET", "HEAD"}
        /\ exchange.now <= call.expires
        /\ call.keyId \in DOMAIN config.keys /\ config.keys[call.keyId] = call.secret
        /\ HostHeader(call.base) = IF config.publicBase.host # Absent THEN HostHeader(config.publicBase)
                                                                    ELSE input.request.host
        /\ call.preset # Absent => call.preset \in DOMAIN config.presets
        /\ Taken(Meant(call))
        /\ exchange.answer.status # 429)
       => /\ exchange.answer.work.done
          /\ exchange.answer.work.source = call.source
          /\ exchange.answer.work.options = Meant(call)
          /\ exchange.answer.work.watermark = DrawnWatermark(call.watermark)

\* No work without leave: a source is read or a cache asked only for a
\* request that carries the server's token, or that is, in its method,
\* authority, path and every parameter, one a holder of a configured key
\* signed and that has not expired (auth.rs 40-127, handler.rs 1107-1340).
WorkOnlyAuthorized ==
  (exchange.finished /\ exchange.answer.work.done) =>
    LET input == exchange.input
        work == exchange.answer.work
    IN IF work.by = "token"
       THEN config.token # Absent /\ input.request.token = config.token
       ELSE /\ Signed(input) /\ Intact(input)
            /\ exchange.now <= input.call.expires
            /\ config.keys[input.call.keyId] = input.call.secret
            /\ RequestAuthority(input.request, config) = HostHeader(input.call.base)

\* The limiter charges who really connected: the nearest address on the
\* request's path that is not a trusted proxy, whatever the client wrote into
\* the forwarding headers itself (routing.rs 92-140).
ChargedToClient ==
  exchange.finished =>
    LET path == CameFrom(exchange.input)
        outside == {i \in DOMAIN path : path[i] \notin config.trusted}
    IN (exchange.charged # {} /\ outside # {}) =>
         exchange.charged = {path[CHOOSE i \in outside : \A j \in outside : i <= j]}

\* An upload is read as it was sent: when a client's form is well formed and
\* its boundary does not end one of its parts, the file the transform gets is
\* the file part, byte for byte, even where the file holds the text of the
\* boundary (multipart.rs 233-296, http_parse.rs 559-579).
UploadAsSent ==
  exchange.finished =>
    LET input == exchange.input IN
    (/\ input.parts # <<>>
     /\ input.request.path = "/images"
     /\ \A i \in DOMAIN input.parts : Unambiguous(input.parts[i])) =>
       /\ PartsFrom(input.request.body).parts = input.parts
       /\ exchange.answer.work.done =>
            exchange.answer.work.source.bytes = The(input.parts, "file")

\* The greatest weight an Accept header gives a type, 0 for none.
AcceptWeights(accept, t) ==
  {accept[i].q : i \in {k \in DOMAIN accept :
     RangeMatches(accept[k].range, t) /\ Recognised(accept[k].range) /\ accept[k].q \in 0..1000}} \cup {0}
AcceptWeight(accept, t) ==
  CHOOSE q \in AcceptWeights(accept, t) : \A p \in AcceptWeights(accept, t) : q >= p

\* The header has a range written so with this weight.
Writes(accept, range, q) ==
  \E i \in DOMAIN accept : accept[i].range = range /\ Recognised(range) /\ accept[i].q = q

\* The format a header asks for: none that is offered has a greater weight, a
\* type the header names goes before one that only image/* covers, equal ones go
\* by the server's order, and where */* alone gives the weight the format is kept.
Favoured(accept, offered, kept, format) ==
  LET q == AcceptWeight(accept, format)
      named == {i \in DOMAIN offered : Writes(accept, offered[i], q)}
  IN /\ q > 0 /\ \A i \in DOMAIN offered : AcceptWeight(accept, offered[i]) <= q
     /\ IF named # {} THEN format = offered[CHOOSE i \in named : \A j \in named : i <= j]
        ELSE format = IF Writes(accept, "image", q) THEN offered[1] ELSE kept

\* The Accept header is honoured: where the request names no format and the
\* server negotiates, an image is in the format the header asks for, the input's
\* own included, and it is refused with 406 if and only if nothing offered has a
\* weight; otherwise there is no 406 (negotiate.rs 20-73, handler.rs 1525-1545).
AcceptHonoured ==
  (exchange.finished /\ exchange.answer.work.done
     /\ exchange.answer.work.source.reference \in DOMAIN Images) =>
    LET accept == exchange.input.request.accept
        image == Images[exchange.answer.work.source.reference]
        offered == PreferredOutputs(image, config.preference)
        asked == /\ \E i \in DOMAIN accept : accept[i].range # "blank"
                 /\ exchange.answer.work.options.format = "none" /\ config.negotiates
    IN /\ exchange.answer.status = 406 <=>
            asked /\ \A i \in DOMAIN offered : AcceptWeight(accept, offered[i]) = 0
       /\ asked /\ exchange.answer.status \in {200, 304} =>
            Favoured(accept, offered, DefaultOutput(image.type), exchange.answer.format)

\* docs/api-reference.md 113-114: "A GIF request that does not name a format
\* is served as PNG rather than echoing the input format back."
GifServedAsPng ==
  (/\ exchange.finished /\ exchange.answer.work.done
   /\ exchange.answer.work.source.reference \in DOMAIN Images
   /\ Images[exchange.answer.work.source.reference].type = "gif"
   /\ exchange.answer.work.options = DefaultOptions
   /\ exchange.answer.status # 406)
  => exchange.answer.status \in {200, 304} /\ exchange.answer.format \in {"png", "webp", "jpeg"}
=============================================================================
