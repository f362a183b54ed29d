------------------------------- MODULE Config -------------------------------
(***************************************************************************)
(* ServerConfig::from_env (src/adapters/server/config.rs) and the storage  *)
(* clients it builds (s3.rs, gcs.rs, azure.rs): which environments are     *)
(* accepted, and what configuration they give.                             *)
(*                                                                         *)
(* An environment maps the variables that are set to their values, each    *)
(* [k, v]: k is "bytes" for a value that is not UTF-8, "empty", "blank" or *)
(* "text", and v is what the text says.  A number is told by where it      *)
(* stands to the range of its variable: "below", "least", "most", "above", *)
(* "nan" or "word".  Every fault is the same refusal, so the checks are a  *)
(* conjunction.                                                            *)
(***************************************************************************)
EXTENDS Integers, FiniteSets, Sequences

CONSTANT AddressBits  \* width of an address by family: 32 and 128 in the code

----------------------------------------------------------------------------
(* Reading one variable.                                                   *)

\* env_var: set, whatever the value, and readable.
Present(env, name) == name \in DOMAIN env
Readable(env, name) == Present(env, name) => env[name].k # "bytes"

\* env_nonempty: an empty variable counts as one that is not set.
Given(env, name) == Present(env, name) /\ env[name].k # "empty"

\* What a text says; a blank one says nothing any parser takes.
Says(env, name, meanings) == env[name].k = "text" /\ env[name].v \in meanings

\* parse_env_u64_ranged; parse_optional_env_u32 is the same over all of u32.
RangedOK(env, name) == Given(env, name) => Says(env, name, {"least", "most"})

\* parse_env_f64_ranged: compares with `<` and `>`, which a NaN passes.
MarginOK(env, name) == Given(env, name) => Says(env, name, {"least", "most", "nan"})

\* env_flag: an empty value is not one of the spellings.
FlagOK(env, name) == Present(env, name) => Says(env, name, {"on", "off"})
Flag(env, name) == Present(env, name) /\ Says(env, name, {"on"})

\* validate_public_base_url.
BaseUrlOK(env, name) == Given(env, name) => Says(env, name, {"http", "https"})

----------------------------------------------------------------------------
(* The groups of variables, in the order from_env reads them.              *)

Backends == {"filesystem", "s3", "gcs", "azure"}

\* StorageBackend::parse.
BackendOf(env) ==
  IF Given(env, "TRUSS_STORAGE_BACKEND") THEN env["TRUSS_STORAGE_BACKEND"].v ELSE "filesystem"

BackendOK(env) ==
  Given(env, "TRUSS_STORAGE_BACKEND") => Says(env, "TRUSS_STORAGE_BACKEND", Backends)

\* The storage root must resolve; unset it is the working directory.
StorageRootOK(env) ==
  Present(env, "TRUSS_STORAGE_ROOT") => Says(env, "TRUSS_STORAGE_ROOT", {"directory", "file"})

\* TRUSS_SIGNED_URL_KEY_ID and its secret, and TRUSS_SIGNING_KEYS: v is a
\* function from key ids to secrets, or <<>> with k = "blank" for bad JSON.
SigningOK(env) ==
  /\ Given(env, "TRUSS_SIGNED_URL_KEY_ID") <=> Given(env, "TRUSS_SIGNED_URL_SECRET")
  /\ Given(env, "TRUSS_SIGNING_KEYS") =>
       /\ env["TRUSS_SIGNING_KEYS"].k = "text"
       /\ \A kid \in DOMAIN env["TRUSS_SIGNING_KEYS"].v :
            kid # "" /\ env["TRUSS_SIGNING_KEYS"].v[kid] # ""

\* The extra keys are added last, so they win over the pair.
SigningKeys(env) ==
  LET extra == IF Given(env, "TRUSS_SIGNING_KEYS") THEN env["TRUSS_SIGNING_KEYS"].v ELSE <<>>
      id == IF Given(env, "TRUSS_SIGNED_URL_KEY_ID") THEN {env["TRUSS_SIGNED_URL_KEY_ID"].v} ELSE {}
  IN [kid \in DOMAIN extra \cup id |->
        IF kid \in DOMAIN extra THEN extra[kid] ELSE env["TRUSS_SIGNED_URL_SECRET"].v]

\* Every number that has a range; the burst is read only when a rate is set.
Ranged ==
  {"TRUSS_CACHE_MAX_BYTES", "TRUSS_PUBLIC_MAX_AGE", "TRUSS_PUBLIC_STALE_WHILE_REVALIDATE",
   "TRUSS_MAX_CONCURRENT_TRANSFORMS", "TRUSS_TRANSFORM_DEADLINE_SECS", "TRUSS_MAX_INPUT_PIXELS",
   "TRUSS_MAX_UPLOAD_BYTES", "TRUSS_KEEP_ALIVE_MAX_REQUESTS", "TRUSS_MAX_SOURCE_BYTES",
   "TRUSS_MAX_WATERMARK_BYTES", "TRUSS_MAX_REMOTE_REDIRECTS", "TRUSS_STORAGE_TIMEOUT_SECS"}
HealthRanged ==
  {"TRUSS_HEALTH_CACHE_MIN_FREE_BYTES", "TRUSS_HEALTH_MAX_MEMORY_BYTES",
   "TRUSS_HEALTH_CACHE_TTL_SECS", "TRUSS_SHUTDOWN_DRAIN_SECS", "TRUSS_COMPRESSION_LEVEL"}

LimitsOK(env) == \A name \in Ranged : RangedOK(env, name)
HealthOK(env) ==
  /\ \A name \in HealthRanged : RangedOK(env, name)
  /\ MarginOK(env, "TRUSS_HEALTH_HYSTERESIS_MARGIN")

FlagsOK(env) ==
  \A name \in {"TRUSS_ALLOW_INSECURE_URL_SOURCES", "TRUSS_DISABLE_METRICS", "TRUSS_DISABLE_COMPRESSION",
               "TRUSS_DISABLE_ACCEPT_NEGOTIATION", "TRUSS_S3_FORCE_PATH_STYLE"} : FlagOK(env, name)

\* TRUSS_RATE_LIMIT_RPS: 0 turns the limiter off.
RateOn(env) == Given(env, "TRUSS_RATE_LIMIT_RPS") /\ Says(env, "TRUSS_RATE_LIMIT_RPS", {"most"})
RateOK(env) ==
  /\ RangedOK(env, "TRUSS_RATE_LIMIT_RPS")
  /\ RateOn(env) => RangedOK(env, "TRUSS_RATE_LIMIT_BURST")

\* LogLevel::from_str.
LogLevels == <<"error", "warn", "info", "debug">>
LogLevelOK(env) ==
  Given(env, "TRUSS_LOG_LEVEL") => Says(env, "TRUSS_LOG_LEVEL", {LogLevels[i] : i \in 1..4})

\* parse_format_preference_from_env: v is the list of the names written.
FormatsOK(env) ==
  Given(env, "TRUSS_FORMAT_PREFERENCE") =>
    /\ env["TRUSS_FORMAT_PREFERENCE"].k \in {"text", "blank"}
    /\ LET names == env["TRUSS_FORMAT_PREFERENCE"].v
       IN /\ \A i \in DOMAIN names : names[i] \in {"jpeg", "png", "webp", "bmp", "tiff", "svg"}
          /\ \A i, j \in DOMAIN names : i # j => names[i] # names[j]

\* parse_response_headers_from_env, validate_header_name, reject_denied_header,
\* validate_header_value: v is a set of [name, value].
Denied ==
  {"content-length", "transfer-encoding", "content-encoding", "content-type", "connection", "host",
   "upgrade", "proxy-connection", "keep-alive", "te", "trailer"}
HeadersOK(env) ==
  Given(env, "TRUSS_RESPONSE_HEADERS") =>
    /\ env["TRUSS_RESPONSE_HEADERS"].k = "text"
    /\ \A h \in env["TRUSS_RESPONSE_HEADERS"].v :
         h.name \notin Denied \cup {"", "not a token"} /\ h.value # "control"

\* parse_presets_from_env: the file wins over the inline table, and neither may
\* nest.  v is "whole", "nested" or "junk"; the file's is read when asked.
PresetsOK(env, file) ==
  LET table == CASE Given(env, "TRUSS_PRESETS_FILE") -> file
                 [] ~Given(env, "TRUSS_PRESETS_FILE") /\ Given(env, "TRUSS_PRESETS") -> env["TRUSS_PRESETS"].v
                 [] OTHER -> "whole"
  IN table = "whole"

----------------------------------------------------------------------------
(* TrustedProxy.                                                           *)

\* TrustedProxy::parse: an entry is [family, net, prefix], the prefix of one
\* address being all its bits; "none" is the family of what is no address.  A
\* list of blanks is an empty one.
ProxyOK(p) == p.family \in DOMAIN AddressBits /\ p.prefix \in 0..AddressBits[p.family]
ProxiesOK(env) ==
  Given(env, "TRUSS_TRUSTED_PROXIES") =>
    /\ env["TRUSS_TRUSTED_PROXIES"].k \in {"text", "blank"}
    /\ \A i \in DOMAIN env["TRUSS_TRUSTED_PROXIES"].v : ProxyOK(env["TRUSS_TRUSTED_PROXIES"].v[i])

----------------------------------------------------------------------------
(* The storage clients.  An endpoint is [url, host].                       *)

\* validate_backend_endpoint_url: what a name resolves to is checked too, and
\* only the insecure mode lets one that does not resolve, or is private, pass.
EndpointOK(endpoint, insecure) ==
  /\ endpoint.url \in {"http", "https"}
  /\ endpoint.host \notin {"metadata", "alias of metadata"}
  /\ endpoint.host \in {"private", "unresolved"} => insecure

EndpointAllowed(env, name) ==
  Given(env, name) =>
    /\ env[name].k = "text"
    /\ EndpointOK(env[name].v, Flag(env, "TRUSS_ALLOW_INSECURE_URL_SOURCES"))

\* build_s3_context and its bucket.
S3ContextOK(env) == Given(env, "TRUSS_S3_BUCKET") /\ EndpointAllowed(env, "AWS_ENDPOINT_URL")

\* build_gcs_context and its bucket.
GcsContextOK(env) == Given(env, "TRUSS_GCS_BUCKET") /\ EndpointAllowed(env, "TRUSS_GCS_ENDPOINT")

\* build_azure_context: without an endpoint, one derived from the account name.
AzureContextOK(env) ==
  /\ Given(env, "TRUSS_AZURE_CONTAINER")
  /\ IF Given(env, "TRUSS_AZURE_ENDPOINT") THEN EndpointAllowed(env, "TRUSS_AZURE_ENDPOINT")
     ELSE Given(env, "AZURE_STORAGE_ACCOUNT_NAME") /\ Says(env, "AZURE_STORAGE_ACCOUNT_NAME", {"account"})

ContextOK(env) ==
  CASE BackendOf(env) = "s3"    -> S3ContextOK(env)
    [] BackendOf(env) = "gcs"   -> GcsContextOK(env)
    [] BackendOf(env) = "azure" -> AzureContextOK(env)
    [] OTHER                    -> TRUE

\* What the probe of a store may be answered.
ProbeAnswers == {"found", "no object", "no bucket", "denied", "failed", "transport", "timeout"}

\* S3Context::check_reachable: any answer of the service but NoSuchBucket.
S3Reachable(answer) == answer \notin {"no bucket", "transport", "timeout"}

\* GcsContext::check_reachable: a status other than 404, 401 and 403 is a failure.
GcsReachable(answer) == answer \in {"found", "no object", "denied"}

\* AzureContext::check_reachable: any error the call returns but ContainerNotFound,
\* a transport error included; only the timer makes it fail.
AzureReachable(answer) == answer \notin {"no bucket", "timeout"}

\* storage_health_check: the root, then the backend.
StorageUsable(config, answer) ==
  /\ config.root = "directory"
  /\ CASE config.backend = "s3"    -> S3Reachable(answer)
       [] config.backend = "gcs"   -> GcsReachable(answer)
       [] config.backend = "azure" -> AzureReachable(answer)
       [] OTHER                    -> TRUE

----------------------------------------------------------------------------

\* Variables whose text is kept as it is: only the encoding can be wrong.
Free ==
  {"TRUSS_BEARER_TOKEN", "TRUSS_CACHE_ROOT", "TRUSS_METRICS_TOKEN", "TRUSS_HEALTH_TOKEN",
   "TRUSS_BIND_ADDR", "TRUSS_SIGNED_URL_KEY_ID", "TRUSS_SIGNED_URL_SECRET", "TRUSS_PRESETS_FILE"}

\* from_env, its refusals.
Accepted(env, presetsFile) ==
  /\ \A name \in Free : Readable(env, name)
  /\ BackendOK(env) /\ StorageRootOK(env) /\ BaseUrlOK(env, "TRUSS_PUBLIC_BASE_URL")
  /\ SigningOK(env) /\ LimitsOK(env) /\ FlagsOK(env) /\ ContextOK(env)
  /\ HealthOK(env) /\ PresetsOK(env, presetsFile) /\ HeadersOK(env) /\ LogLevelOK(env)
  /\ FormatsOK(env) /\ RateOK(env) /\ ProxiesOK(env)

\* A token of blanks is no token; the bearer token is kept unless it is empty.
Token(env, name) == Given(env, name) /\ env[name].k = "text"

\* ServerConfig::new: what holds for every setting nobody gave.
DefaultConfig ==
  [root |-> "directory", backend |-> "filesystem", keys |-> <<>>, base |-> "none", insecure |-> FALSE,
   margin |-> "default", limits |-> {}, rate |-> FALSE, watched |-> FALSE,
   bearer |-> FALSE, metricsToken |-> FALSE, healthToken |-> FALSE]

\* from_env, the configuration: limits are the numbers given and where they stand.
FromEnv(env) ==
  [root |-> IF Present(env, "TRUSS_STORAGE_ROOT") THEN env["TRUSS_STORAGE_ROOT"].v ELSE DefaultConfig.root,
   backend |-> BackendOf(env),
   keys |-> SigningKeys(env),
   base |-> IF Given(env, "TRUSS_PUBLIC_BASE_URL") THEN env["TRUSS_PUBLIC_BASE_URL"].v ELSE DefaultConfig.base,
   insecure |-> Flag(env, "TRUSS_ALLOW_INSECURE_URL_SOURCES"),
   margin |-> IF Given(env, "TRUSS_HEALTH_HYSTERESIS_MARGIN") THEN env["TRUSS_HEALTH_HYSTERESIS_MARGIN"].v
              ELSE DefaultConfig.margin,
   limits |-> {env[name].v : name \in {n \in Ranged \cup HealthRanged : Given(env, n)}},
   rate |-> RateOn(env),
   watched |-> Given(env, "TRUSS_PRESETS_FILE"),
   bearer |-> Given(env, "TRUSS_BEARER_TOKEN"),
   metricsToken |-> Token(env, "TRUSS_METRICS_TOKEN"),
   healthToken |-> Token(env, "TRUSS_HEALTH_TOKEN")]

\* with_signed_url_credentials: the pair joins the keys there are.
WithCredentials(config, id, secret) ==
  [config EXCEPT !.keys = [kid \in DOMAIN @ \cup {id} |-> IF kid = id THEN secret ELSE @[kid]]]
=============================================================================
