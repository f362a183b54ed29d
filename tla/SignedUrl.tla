------------------------------ MODULE SignedUrl ------------------------------
(***************************************************************************)
(* Signed URLs from one end to the other: the two signers (signing.rs with *)
(* cli/sign.rs, and packages/truss-url-signer/index.js), the server's      *)
(* verification (auth.rs), and the request read back from the query        *)
(* (handler.rs).                                                           *)
(*                                                                         *)
(* A query is a function from the names given to their values.  Options    *)
(* keep the names of the Options record (strip is `stripMetadata`, target  *)
(* is `targetQuality`); the other names are those of the code.  A flag is  *)
(* the text "true" or "false", a number that does not parse is Word.       *)
(* Names are ASCII and form encoding loses nothing, so both signers' sort  *)
(* and encoding give one text per query: the query stands for it.          *)
(***************************************************************************)
EXTENDS Options, FiniteSets

Word == -1000000          \* a text that is no integer
Absent == "absent"        \* an Option that is None, where the value is a name
NoText == ""              \* a text that is empty

FlagNames == {"autoOrient", "strip", "preserveExif", "grayscale", "withoutEnlargement"}
OptionNames == DOMAIN DefaultOptions \ {"deadline"}
WatermarkNames == {"watermarkPosition", "watermarkOpacity", "watermarkMargin"}

\* The second function fills the names the first does not give.
Over(f, g) == [n \in DOMAIN f \cup DOMAIN g |-> IF n \in DOMAIN f THEN f[n] ELSE g[n]]
One(name, value) == [n \in {name} |-> value]
Without(f, names) == [n \in DOMAIN f \ names |-> f[n]]
Get(f, name, default) == IF name \in DOMAIN f THEN f[name] ELSE default

----------------------------------------------------------------------------
(* Signing.                                                                *)

RoutePath(kind) == IF kind = "path" THEN "/images/by-path" ELSE "/images/by-url"

\* HMAC-SHA256: equal only for the same secret over the same text.
Hmac(secret, text) == [secret |-> secret, text |-> text]

\* Mutant: a default port stays in the authority.
UrlAuthorityWithPort(base) == [host |-> base.host, port |-> base.port]

\* url_authority: Url::port drops the scheme's default, 0 here.
UrlAuthority(base) ==
  [host |-> base.host,
   port |-> IF base.port = (IF base.scheme = "https" THEN 443 ELSE 80) THEN 0 ELSE base.port]

\* The Host header a client sends for a URL: external, RFC 9110.
HostHeader(base) ==
  [host |-> base.host,
   port |-> IF <<base.scheme, base.port>> \in {<<"https", 443>>, <<"http", 80>>} THEN 0 ELSE base.port]

\* Mutant: the method is left out of what is signed.
CanonicalAnyMethod(method, authority, path, query) ==
  [method |-> "GET", authority |-> authority, path |-> path, query |-> Without(query, {"signature"})]

\* canonical_query_without_signature, and the four lines that are signed.
Canonical(method, authority, path, query) ==
  [method |-> method, authority |-> authority, path |-> path,
   query |-> Without(query, {"signature"})]

Written(name, value) ==
  IF name \in FlagNames THEN IF value THEN "true" ELSE "false" ELSE value

\* extend_transform_query: an option at its default is not written.
TransformQuery(o) ==
  [n \in {m \in OptionNames : o[m] # DefaultOptions[m]} |-> Written(n, o[n])]

\* signed_source_query
SourceQuery(source) ==
  Over(One(source.kind, source.reference),
       IF source.version = Absent THEN <<>> ELSE One("version", source.version))

WatermarkQuery(w) ==
  IF w.url = Absent THEN <<>>
  ELSE Over(One("watermarkUrl", w.url),
       Over(IF w.position = Absent THEN <<>> ELSE One("watermarkPosition", w.position),
       Over(IF w.opacity = None THEN <<>> ELSE One("watermarkOpacity", w.opacity),
            IF w.margin = None THEN <<>> ELSE One("watermarkMargin", w.margin))))

PresetQuery(preset) == IF preset = Absent THEN <<>> ELSE One("preset", preset)

\* The query both signers sign: the names never collide, so order is free.
SignedQuery(call, options) ==
  Over(SourceQuery(call.source), Over(PresetQuery(call.preset), Over(TransformQuery(options),
  Over(WatermarkQuery(call.watermark), Over(One("keyId", call.keyId), One("expires", call.expires))))))

\* The URL: the base's prefix is kept in it and takes no part in the signature.
SignedWith(call, options) ==
  LET route == RoutePath(call.source.kind)
      query == SignedQuery(call, options)
  IN [base |-> call.base, method |-> call.method, path |-> route,
      query |-> Over(query, One("signature",
         [mac |-> Hmac(call.secret, Canonical(call.method, UrlAuthority(call.base), route, query)),
          case |-> "lower"]))]

\* signing_input_error
SigningInputOK(call) ==
  call.keyId # NoText /\ call.secret # NoText /\ call.source.reference # NoText

\* parse_url_value and normalizeRemoteUrl.
RemoteUrlOK(url) == url \in {"https-url", "http-url"}

\* resolve_metadata_flags, and the same rule in normalizeTransforms.
ResolvedMetadata(o) == [o EXCEPT !.strip = @ /\ ~o.preserveExif]

\* sign_from_clap, execute_sign: what `truss sign` refuses, the argument
\* parsers (parse_url_value, parse_width, parse_media_type...) first.
CliSigns(call) ==
  /\ call.method \in {"GET", "HEAD"}
  /\ call.base.scheme \in {"http", "https"}
  /\ call.source.kind = "url" => RemoteUrlOK(call.source.reference)
  /\ call.watermark.url # Absent => RemoteUrlOK(call.watermark.url)
  /\ call.watermark.opacity # None => call.watermark.opacity \in 1..100
  /\ \A d \in {call.options.width, call.options.height, call.watermark.margin} :
       d # None => DimensionValue(d).ok
  /\ call.watermark.position \in Positions \cup {Absent}
  /\ call.options.format # "gif"
  /\ ValidateWithoutInput(ResolvedMetadata(call.options)) = "ok"
  /\ call.watermark.url = Absent =>
       call.watermark.position = Absent /\ call.watermark.opacity = None /\ call.watermark.margin = None
  /\ SigningInputOK(call)

\* validateTransformMatrix
JsMatrixOK(o) ==
  LET known == o.format # "none" IN
  /\ (o.fit # "none" \/ o.position # "none") => Bounded(o)
  /\ (o.optimize # "none" /\ known) => SupportsOptimization(o.format)
  /\ (o.optimize = "lossy" /\ known) => IsLossy(o.format)
  /\ o.preserveExif => o.format # "svg"
  /\ o.quality # None => (known => IsLossy(o.format)) /\ o.optimize # "lossless"
  /\ HasTarget(o) => o.optimize \in {"auto", "lossy"} /\ (known => IsLossy(o.format))

\* normalizeOptionalPositiveInteger, normalizeOptionalNonNegativeInteger.
JsPixelsOK(v, least) == v = None \/ v \in least..U32Max

\* normalizeOptionalBoundedInteger, normalizeOptionalSigma.
JsBetween(v, least, most) == v = None \/ v \in least..most

\* normalizeOptionalEnum over the sets of names; GIF is not one of the formats.
JsNamesOK(o) ==
  /\ o.fit \in Fits \cup {"none"} /\ o.position \in Positions \cup {"none"}
  /\ o.format \in (MediaTypes \ {"gif"}) \cup {"none"}
  /\ o.optimize \in {"none", "auto", "lossless", "lossy"}

\* normalizeOptionalCrop, assertCropInteger.
JsCropOK(crop) ==
  crop # <<>> => (\A i \in 1..4 : crop[i] \in 0..U32Max) /\ crop[3] # 0 /\ crop[4] # 0

\* normalizeOptionalTargetQuality
JsTargetOK(t) ==
  /\ t.metric = "ssim" => t.value \in 1..100
  /\ t.metric = "psnr" => t.value > 0

\* normalizeOptionalRotation
JsRotation(v) == ((v % 360) + 360) % 360

\* normalizeTransforms.  Unlike the core it has no rule for
\* withoutEnlargement without a dimension.
JsTransformsOK(o) ==
  /\ JsPixelsOK(o.width, 1) /\ JsPixelsOK(o.height, 1)
  /\ JsNamesOK(o)
  /\ JsBetween(o.quality, 1, 100) /\ JsBetween(o.blur, 1, 1000) /\ JsBetween(o.sharpen, 1, 1000)
  /\ JsTargetOK(o.target) /\ JsCropOK(o.crop)
  /\ JsMatrixOK(o)

\* normalizeWatermark
JsWatermarkOK(w) ==
  /\ w.url = Absent => w.position = Absent /\ w.opacity = None /\ w.margin = None
  /\ w.url # Absent => RemoteUrlOK(w.url)
  /\ w.position \in Positions \cup {Absent}
  /\ JsBetween(w.opacity, 1, 100) /\ JsPixelsOK(w.margin, 0)

\* normalizeSource: a version, where given, is not empty.
JsSourceOK(source) ==
  /\ source.reference # NoText /\ source.version # NoText
  /\ source.kind = "url" => RemoteUrlOK(source.reference)

\* resolveEndpoint, normalizeBaseUrl.
JsBaseOK(base) == base.scheme \in {"http", "https"}

\* normalizeExpires, normalizeSecret, pushNonEmptyString.
JsKeyOK(call) == call.preset # NoText /\ call.keyId # NoText /\ call.secret # NoText /\ call.expires >= 1

\* signPublicUrl
JsSigns(call) ==
  /\ JsSourceOK(call.source) /\ JsTransformsOK(call.options) /\ JsWatermarkOK(call.watermark)
  /\ JsBaseOK(call.base) /\ JsKeyOK(call)

Signs(signer, call) == IF signer = "cli" THEN CliSigns(call) ELSE JsSigns(call)

\* Both reduce the rotation and resolve the metadata pair before writing.
Settled(o) == [ResolvedMetadata(o) EXCEPT !.rotate = RotationValue(@).value]
JsSettled(o) == [ResolvedMetadata(o) EXCEPT !.rotate = JsRotation(@)]

Sign(signer, call) ==
  SignedWith(call, IF signer = "cli" THEN Settled(call.options) ELSE JsSettled(call.options))

----------------------------------------------------------------------------
(* Verifying.  A status is a number; Accepted lets the request through.    *)

Accepted == 0

\* extract_bearer_token, authorize_request_headers.
AuthorizeRequest(request, config) ==
  CASE config.token = Absent -> 503
    [] config.token # Absent /\ request.token = config.token -> Accepted
    [] OTHER -> 401

\* canonical_request_authority: the configured URL's, else the Host header; a
\* host that is Absent is a header that is missing or empty.
RequestAuthority(request, config) ==
  IF config.publicBase.host # Absent THEN UrlAuthority(config.publicBase) ELSE request.host

\* `expires < now`: the second it names is still served.
Expired(expires, now) == expires < now

\* required_auth_query_param
AuthParamsGiven(query) == {"keyId", "expires", "signature"} \subseteq DOMAIN query

\* is_canonical_signature, and the HMAC over the request as it arrived.
SignatureOK(request, query, config) ==
  /\ query["signature"].case = "lower"
  /\ query["signature"].mac =
       Hmac(config.keys[query["keyId"]],
            Canonical(request.method, RequestAuthority(request, config), request.path, query))

\* authorize_signed_request, in the order of its checks.
AuthorizeSigned(request, query, config, now) ==
  IF DOMAIN config.keys = {} THEN 503
  ELSE IF ~AuthParamsGiven(query) \/ query["keyId"] \notin DOMAIN config.keys THEN 401
  ELSE IF query["expires"] = Word THEN 400
  ELSE IF Expired(query["expires"], now) THEN 401
  ELSE IF RequestAuthority(request, config).host = Absent THEN 400
  ELSE IF ~SignatureOK(request, query, config) THEN 401
  ELSE Accepted

----------------------------------------------------------------------------
(* Reading the request back.                                               *)

\* validate_public_query_names
PublicNames(kind) ==
  OptionNames \cup WatermarkNames
    \cup {"keyId", "expires", "signature", "version", "watermarkUrl", "preset", kind}

\* parse_optional_integer_query, _u8_, _float_, _bool_, and Rotation::from_str.
TextOK(name, value) ==
  CASE name \in {"width", "height", "watermarkMargin"} -> value # Word /\ DimensionValue(value).ok
    [] name \in {"quality", "watermarkOpacity"}        -> value # Word /\ PercentValue(value).ok
    [] name = "rotate"                                 -> value # Word /\ RotationValue(value).ok
    [] name \in {"blur", "sharpen"}                    -> value # Word
    [] name \in FlagNames                              -> value \in {"true", "false"}
    [] OTHER                                           -> TRUE

Read(name, value) ==
  CASE name \in FlagNames -> value = "true"
    [] name = "rotate"    -> RotationValue(value).value
    [] OTHER              -> value

\* TransformOptionsPayload, as parse_public_get_request fills it.
PayloadOf(query) == [n \in DOMAIN query \cap OptionNames |-> Read(n, query[n])]

\* with_overrides
Merge(payload, preset) == Over(payload, preset)

\* The names into_options parses; GIF parses and is refused as an output.
NamesOK(o) ==
  /\ o.fit \in Fits \cup {"none"} /\ o.position \in Positions \cup {"none"}
  /\ o.format \in MediaTypes \cup {"none"}
  /\ o.optimize \in {"none", "auto", "lossless", "lossy"}

\* into_options: unset fields take their defaults, the metadata pair is
\* resolved, and the rules that need no image are settled here.
IntoOptions(payload) ==
  LET o == ResolvedMetadata([n \in DOMAIN DefaultOptions |-> Get(payload, n, DefaultOptions[n])])
  IN [status |-> CASE ~NamesOK(o) -> 400
                   [] NamesOK(o) /\ o.format = "gif" -> 415
                   [] NamesOK(o) /\ o.format # "gif" /\ ValidateWithoutInput(o) # "ok" -> 400
                   [] OTHER -> Accepted,
      options |-> o]

\* resolve_preset, then into_options.
ResolveOptions(payload, preset, presets) ==
  IF preset # Absent /\ preset \notin DOMAIN presets
  THEN [status |-> 400, options |-> DefaultOptions]
  ELSE IntoOptions(IF preset = Absent THEN payload ELSE Merge(payload, presets[preset]))

\* validate_watermark_payload: w is a watermark with a url or with none.
WatermarkStatus(w) ==
  IF /\ w.url # NoText
     /\ w.position \in Positions \cup {Absent}
     /\ w.opacity # None => w.opacity \in 1..100
  THEN Accepted ELSE 400

NoWatermark == [url |-> Absent, position |-> Absent, opacity |-> None, margin |-> None]

\* The watermark parse_public_get_request reads.
WatermarkOf(query) ==
  [url |-> Get(query, "watermarkUrl", Absent), position |-> Get(query, "watermarkPosition", Absent),
   opacity |-> Get(query, "watermarkOpacity", None), margin |-> Get(query, "watermarkMargin", None)]

\* What the watermark will be drawn with: the defaults for what was not given.
DrawnWatermark(w) ==
  IF w.url = Absent THEN w
  ELSE LET d == DefaultWatermark(w.url)
       IN [w EXCEPT !.position = IF @ = Absent THEN d.position ELSE @,
                    !.opacity = IF @ = None THEN d.opacity ELSE @,
                    !.margin = IF @ = None THEN d.margin ELSE @]

Parsed(status, source, options, watermark) ==
  [status |-> status, source |-> source, options |-> options, watermark |-> watermark]

\* parse_public_get_request and validate_watermark_payload.
ParsePublicGet(query, kind, presets) ==
  LET source == [kind |-> kind, reference |-> Get(query, kind, NoText),
                 version |-> Get(query, "version", Absent)]
      watermark == WatermarkOf(query)
      orphaned == "watermarkUrl" \notin DOMAIN query /\ DOMAIN query \cap WatermarkNames # {}
      resolved == ResolveOptions(PayloadOf(query), Get(query, "preset", Absent), presets)
      malformed == \/ DOMAIN query \ PublicNames(kind) # {}
                   \/ source.reference = NoText
                   \/ orphaned
                   \/ \E n \in DOMAIN query \cap (OptionNames \cup WatermarkNames) : ~TextOK(n, query[n])
  IN IF malformed
     THEN Parsed(400, source, DefaultOptions, watermark)
     ELSE Parsed(IF resolved.status # Accepted THEN resolved.status ELSE WatermarkStatus(watermark),
                 source, resolved.options, DrawnWatermark(watermark))
=============================================================================
