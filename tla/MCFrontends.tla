---------------------------- MODULE MCFrontends ----------------------------
EXTENDS Frontends

\* Widths of an address: 4 bits for the family of 32, 6 for that of 128.
MCBits == [v4 |-> 4, v6 |-> 6]

\* A length of each kind a walk tells apart: too short, just enough, past the end.
MCLengths == [png |-> {0, 4, 30}, jpeg |-> {1, 8, 30}, webp |-> {4, 10, 60}, gif |-> {0, 1, 30}]

Http == [scheme |-> "http", host |-> "public"]
Https == [scheme |-> "https", host |-> "public"]
Metadata == [scheme |-> "http", host |-> "metadata"]
Alias == [scheme |-> "https", host |-> "alias of metadata"]
Ftp == [scheme |-> "ftp", host |-> "public"]
OnDisk == [scheme |-> "path", host |-> "none"]
MCUrls == {Http, Https, Metadata, Alias, Ftp}

----------------------------------------------------------------------------
(* Files.                                                                  *)

Root(w, h, box) == [width |-> w, height |-> h, box |-> box, max |-> 100]
F(type, size) ==
  [type |-> type, declared |-> "none", size |-> size, opening |-> "IHDR", table |-> 0,
   prolog |-> <<>>, root |-> Root(0, 0, <<0, 0>>)]
Svg(prolog, root) == [F("svg", 0) EXCEPT !.prolog = prolog, !.root = root]
Item(kind) == [k |-> kind, closed |-> TRUE]

Plain == F("bmp", 30)

\* Sizes at which a chunk, or only its header, still fits.
MCFiles ==
  {F("png", n) : n \in {28, 29, 44, 57}} \cup {[F("png", 45) EXCEPT !.table = 6], [F("png", 45) EXCEPT !.opening = "CgBI"]}
  \cup {F("jpeg", n) : n \in {2, 11, 33}}
  \cup {F("webp", n) : n \in {11, 19, 30, 48}}
  \cup {F("gif", n) : n \in {5, 12, 15, 28}} \cup {[F("gif", 34) EXCEPT !.table = 6]}
  \cup {[F("tiff", n) EXCEPT !.table = 2, !.opening = o] : n \in {20, 34}, o \in {"decodes", "bad"}}
  \cup {F("bmp", 29), Plain, [Plain EXCEPT !.declared = "bmp"], [Plain EXCEPT !.declared = "png"]}
  \cup {F("avif", 16), F("text", 9)}
  \cup {Svg(<<Item("comment"), Item("doctype"), Item("root")>>, Root(w, h, box)) :
          w \in {0, 10, 100}, h \in {0, 5}, box \in {<<0, 0>>, <<4, 2>>}}
  \cup {Svg(p, Root(1, 1, <<0, 0>>)) :
          p \in {<<>>, <<Item("text")>>, <<Item("doctype"), Item("doctype"), Item("root")>>,
                 <<[k |-> "comment", closed |-> FALSE]>>}}

----------------------------------------------------------------------------
(* Command lines.                                                          *)

NoFlags == [root |-> "none", id |-> "none", secret |-> "none", base |-> FALSE, insecure |-> FALSE]
Line(first) ==
  [first |-> first, help |-> FALSE, values |-> <<>>, topic |-> "none", url |-> NoUrl, input |-> "none",
   output |-> "none", extension |-> "png", watermark |-> NoUrl, watermarkOptions |-> FALSE,
   keepsAndPreserves |-> FALSE, missing |-> {}, flags |-> NoFlags]
Convert == [Line("convert") EXCEPT !.input = "path", !.output = "path"]
Inspect == [Line("inspect") EXCEPT !.input = "path"]

Job(line) == [line |-> line, file |-> Plain, env |-> <<>>, dest |-> "file", call |-> NoCall]

\* Lines that say everything they have to say without a file.
Texts ==
  {Line("nothing"), Line("-h"), Line("-V"), Line("version"), Line("word"), Line("existing file"),
   [Line("help") EXCEPT !.topic = "convert"], [Line("help") EXCEPT !.topic = "unknown"], Line("completions"),
   [Line("completions") EXCEPT !.topic = "unknown"], [Line("serve flag") EXCEPT !.help = TRUE],
   [Line("serve") EXCEPT !.values = "public-base-url" :> "word"], Line("sign"), [Line("sign") EXCEPT !.missing = {"key id"}],
   [Line("sign") EXCEPT !.keepsAndPreserves = TRUE], [Line("sign") EXCEPT !.watermarkOptions = TRUE]}

Converts ==
  {Convert, [Convert EXCEPT !.first = "optimize"], [Convert EXCEPT !.first = "path"],
   [Convert EXCEPT !.output = "-"], [Convert EXCEPT !.input = "-"], [Convert EXCEPT !.output = "none"],
   [Convert EXCEPT !.extension = "gif"], [Convert EXCEPT !.extension = "gif", !.values = "format" :> "png"],
   [Convert EXCEPT !.values = "quality" :> "outside"], [Convert EXCEPT !.values = "quality" :> "wide"],
   [Convert EXCEPT !.values = "optimize" :> "none"], [Convert EXCEPT !.values = "crop" :> "word"],
   [Convert EXCEPT !.first = "optimize", !.values = "format" :> "tiff"],
   [Convert EXCEPT !.first = "optimize", !.values = "mode" :> "none"],
   [Convert EXCEPT !.first = "optimize", !.values = "no-auto-orient" :> "good"],
   [Convert EXCEPT !.first = "optimize", !.values = "width" :> "good"],
   [Convert EXCEPT !.keepsAndPreserves = TRUE], [Convert EXCEPT !.watermarkOptions = TRUE],
   [Convert EXCEPT !.watermark = OnDisk], [Convert EXCEPT !.watermark = Ftp], [Convert EXCEPT !.watermark = Https],
   [Convert EXCEPT !.input = "none", !.url = Http], [Convert EXCEPT !.url = Http],
   [Convert EXCEPT !.input = "none", !.url = Ftp], [Convert EXCEPT !.input = "none", !.url = Metadata],
   [Inspect EXCEPT !.input = "-"], [Inspect EXCEPT !.input = "none"]}

----------------------------------------------------------------------------
(* Environments: sound ones, and one fault at a time.                      *)

T(v) == [k |-> "text", v |-> v]
Empty == [k |-> "empty", v |-> ""]
Only(name, value) == [n \in {name} |-> value]
With(env, name, value) == [n \in DOMAIN env \cup {name} |-> IF n = name THEN value ELSE env[n]]

Endpoint(url, host) == T([url |-> url, host |-> host])
S3 == With(Only("TRUSS_STORAGE_BACKEND", T("s3")), "TRUSS_S3_BUCKET", T("bucket"))
Gcs == With(Only("TRUSS_STORAGE_BACKEND", T("gcs")), "TRUSS_GCS_BUCKET", T("bucket"))
Azure == With(With(Only("TRUSS_STORAGE_BACKEND", T("azure")), "TRUSS_AZURE_CONTAINER", T("bucket")),
              "AZURE_STORAGE_ACCOUNT_NAME", T("account"))

Environments ==
  {<<>>, S3, Gcs, Azure,
   Only("TRUSS_STORAGE_BACKEND", T("s3")), Only("TRUSS_STORAGE_BACKEND", T("tape")),
   With(S3, "AWS_ENDPOINT_URL", Endpoint("http", "alias of metadata")),
   With(S3, "AWS_ENDPOINT_URL", Endpoint("http", "private")),
   With(With(S3, "AWS_ENDPOINT_URL", Endpoint("http", "private")), "TRUSS_ALLOW_INSECURE_URL_SOURCES", T("on")),
   With(Gcs, "TRUSS_GCS_ENDPOINT", Endpoint("ftp", "public")),
   With(Azure, "TRUSS_AZURE_ENDPOINT", Endpoint("https", "unresolved")),
   With(Azure, "AZURE_STORAGE_ACCOUNT_NAME", T("Not An Account")),
   Only("TRUSS_SIGNED_URL_KEY_ID", T("a")),
   With(Only("TRUSS_SIGNED_URL_KEY_ID", T("a")), "TRUSS_SIGNED_URL_SECRET", T("s")),
   With(Only("TRUSS_SIGNED_URL_KEY_ID", T("a")), "TRUSS_SIGNED_URL_SECRET", Empty),
   With(Only("TRUSS_PRESETS", T("nested")), "TRUSS_LOG_LEVEL", T("warn")), Only("TRUSS_PRESETS", T("whole"))}
  \cup {Only("TRUSS_STORAGE_ROOT", T(v)) : v \in {"directory", "file", "missing"}}
  \cup {Only("TRUSS_PUBLIC_BASE_URL", T(v)) : v \in {"https", "ftp"}}
  \cup {Only("TRUSS_SIGNING_KEYS", v) :
          v \in {T("b" :> "s"), T("" :> "s"), T("b" :> ""), [k |-> "blank", v |-> <<>>]}}
  \cup {Only("TRUSS_MAX_SOURCE_BYTES", v) :
          v \in {T("below"), T("least"), T("most"), T("above"), T("word"), Empty, [k |-> "bytes", v |-> ""]}}
  \cup {Only("TRUSS_HEALTH_HYSTERESIS_MARGIN", T(v)) : v \in {"below", "least", "nan"}}
  \cup {Only("TRUSS_DISABLE_METRICS", v) : v \in {T("on"), T("maybe"), Empty}}
  \cup {Only("TRUSS_LOG_LEVEL", T("loud")), Only("TRUSS_HEALTH_TOKEN", [k |-> "blank", v |-> ""])}
  \cup {With(Only("TRUSS_RATE_LIMIT_RPS", T(v)), "TRUSS_RATE_LIMIT_BURST", T("above")) : v \in {"least", "most"}}
  \cup {Only("TRUSS_FORMAT_PREFERENCE", T(v)) : v \in {<<"webp", "png">>, <<"png", "png">>, <<"avif">>}}
  \cup {Only("TRUSS_RESPONSE_HEADERS", T({[name |-> n, value |-> v]})) :
          n \in {"x-cdn", "connection", ""}, v \in {"plain", "control"}}
  \cup {Only("TRUSS_TRUSTED_PROXIES", T(<<[family |-> f, net |-> 8, prefix |-> p]>>)) :
          f \in {"v4", "none"}, p \in {4, 5}}
  \cup {Only("TRUSS_TRUSTED_PROXIES", [k |-> k, v |-> <<>>]) : k \in {"blank", "bytes"}}

Watched == Only("TRUSS_PRESETS_FILE", T("presets.json"))

Flags ==
  {[NoFlags EXCEPT !.root = r] : r \in {"directory", "missing", "file"}}
  \cup {[NoFlags EXCEPT !.id = "c", !.secret = s] : s \in {"none", "", "s"}}
  \cup {[NoFlags EXCEPT !.base = TRUE, !.insecure = TRUE]}

Serves ==
  {[Job(Line("serve")) EXCEPT !.env = e] : e \in Environments \cup {Watched}}
  \cup {[Job(Line("validate")) EXCEPT !.env = e] : e \in {<<>>, S3, Watched}}
  \cup {[Job([Line("serve flag") EXCEPT !.flags = f]) EXCEPT !.env = Only("TRUSS_SIGNING_KEYS", T("b" :> "s"))] : f \in Flags}

----------------------------------------------------------------------------
(* Calls of the WebAssembly functions.                                     *)

Call(name) == [name |-> name, declared |-> "none", options |-> "sound", mark |-> "sound"]
Calls ==
  {Call("getCapabilitiesJson"), Call("transformImage"), Call("transformImageWithWatermark")}
  \cup {[Call("inspectImageJson") EXCEPT !.declared = d] : d \in {"unknown", "unencodable", "known"}}
  \cup {[Call("transformImage") EXCEPT !.options = o] :
          o \in {"junk", "conflict", "name", "unencodable", "unknown", "text"}}
  \cup {[Call("transformImageWithWatermark") EXCEPT !.mark = m] :
          m \in {"junk", "svg", "position", "opacity", "corrupt", "unknown"}}

MCJobs ==
  {Job(line) : line \in Texts \cup Converts}
  \cup {[Job(Convert) EXCEPT !.dest = d] : d \in {"absent", "special", "readonly", "closed"}}
  \cup {[Job(Inspect) EXCEPT !.file = f] : f \in MCFiles}
  \cup {[Job(Line("nothing")) EXCEPT !.call = c] : c \in Calls}
  \cup {[Job(Line("nothing")) EXCEPT !.call = Call("inspectImageJson"), !.file = F("png", 41)]}
  \cup Serves
=============================================================================
