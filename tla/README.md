# A TLA+ verification of truss

truss is an image transformation tool: a server, a command line, a WebAssembly
module and a URL signer over one core of codecs. This directory holds TLA+
models of all of them, the TLC configurations that check the models on small
instances, and TLAPS proofs, for every value of the constants, of all the
invariants the passing runs check. Each definition that stands for code is listed in
`PROJECT.json` under `map` with the lines it translates.

## 1. The system

| Component | State it keeps | Operations | What makes it correct |
|---|---|---|---|
| Rate limiter (`rate_limit.rs`) | 16 mutexes, each over a map address → (tokens, last refill) | `check`, with lazy cleanup of idle buckets | over any window a client gets at most the burst plus what the rate adds, and no less |
| Image request pipeline (`handler.rs`) | `transforms_in_flight`, cache counters, the cache, one call stack per worker | versioned lookup, source read, inspection, content-keyed lookup, slot, watermark, transform, put, release | the right image, never an outdated one; slots bounded and never lost |
| Transform and origin caches (`cache.rs`) | files under the cache root, `last_eviction_secs` | `get`, `put`, `remove_corrupted`, `maybe_evict`, `evict_to_limit` | to a caller it is an atomic map that may forget; bounded size; no leaked files |
| Server lifecycle (`lifecycle.rs`) | `draining`, self-pipe, channel, worker pool, deadlines | accept loop, workers, panic containment, signal handler, drain, bounded join | no accepted connection lost, the shutdown ends in time |
| Preset hot reload (`lifecycle.rs`, `config.rs`) | preset table, last seen modification time | first read, poll, reload | the table follows the file |
| Connection and request reader (`routing.rs`, `http_parse.rs`) | carried-over bytes, requests served | read header, refuse early, read body, route, answer, log, keep alive | requests are cut where the client cut them |
| Readiness probe (`handler.rs`) | cached measurements with timestamps, hysteresis states, all atomics | measure or reuse, decide with hysteresis | fresh values, no flapping, a breach is always reported |
| Source resolution (`remote.rs`, `s3.rs`, `gcs.rs`, `azure.rs`) | origin cache | path, URL with redirects, object stores | limits and address policy hold at every hop |
| Authentication and signing (`auth.rs`, `signing.rs`, `packages/truss-url-signer`) | none | sign, verify, read the request back | what is signed is served, what is not signed is not |
| Multipart (`multipart.rs`) | none | boundary search, parts, fields | the file is the one that was sent |
| Negotiation and response (`negotiate.rs`, `response.rs`) | none | rank `Accept`, conditional request, headers, compression | the answer is one the client asked for |
| Metrics (`metrics.rs`) | atomics | count, observe | no request lost |
| Configuration (`config.rs`) | none | `from_env`, overlay of flags | only sound settings start a server |
| Core (`core.rs`) | none | option rules, geometry, header walks | walks end, two walks agree, content stays inside its canvas |
| Codecs (`codecs/`) | none but the call | decode, orient, crop, resize, filter, watermark, encode or search; sanitize SVG | shown as meant, bounded memory, nothing active in a sanitized document |
| Command line (`cli/`) | output path and temporary file | parse, read or fetch, sniff, transform, replace the output, report | whole outputs, truthful exit codes |
| WebAssembly (`wasm.rs`) | none | four exported calls | the same core rules |

How they interact. The accept loop hands connections to the workers through a
channel. A worker runs `handle_stream`, which cuts requests out of the stream,
asks the rate limiter, and routes them; image requests run the pipeline, which
shares the slot counter and the cache directory with every other worker and,
through the directory, with other processes. Probes read and write the health
cache. The signal handler and the preset watcher write the `draining` flag and
the preset table that all of them read. The handlers, the command line and the
WebAssembly calls all end in `codecs::transform`, which has no state of its own.

What is hard here is concurrency without a common lock: two atomics that
belong together, a clock read outside a mutex, an increment that is taken back,
a directory read while it changes, a signal between a test and a wait; failure
in the middle: panics, full disks, crashes, clients that go away; and the same
fact computed in two places: an orientation read by two walks, a canonical text
written by three programs, a limit for a buffer and for the size it returns.
`PROJECT.json` lists these under `hazards`, each at its line and with the
properties aimed at it.

## 2. Modules

```
Options ── Geometry ── RasterCodec ─┐
                     SvgSanitizer ──┴─ SvgCodec ── Transform              one transform
Sniff, Config, PresetWatcher ── CommandLine ── WasmAdapter ── Frontends   one use from outside
Options ── SignedUrl ── Multipart ─┐
Options ── Negotiation ────────────┼─ HttpServer                          one request
Metrics ───────────────────────────┘
AtomicCache ◄─ TransformCache (refines), SourceFetch (uses)
TransformPipeline
RateLimiter, ServerLifecycle, Connection, HealthCache                     on their own
```

Ten specifications have theorems, in eight modules that extend them (section 5):
`RateLimiterProofs`, `TransformPipelineProofs`, `TransformCacheProofs`,
`SourceFetchProofs`, `HealthCacheProofs`, `HttpServerProofs`, `ServerProofs`
(`ServerLifecycle` and `Connection`) and `TransformProofs` (`Frontends` and
`Transform`).

The last group is what concurrent workers share, cut at the granularity of the
code's atomics, locks and system calls. The first three are compositions of
components that run within one call, so they interleave only with the world
outside: a rival process, an operator, a name service, proxies, another worker's
metrics. Definitions named "Mutant" in a comment are plausible faults, used to
see that a property notices them; no specification uses them.

### RateLimiter

`check` is two steps, `Sample` (the clock, line 78, before the lock) and
`Check` (the critical section with cleanup, insertion, refill and decision).
Tokens are counted in units, `Unit` to the token, so that fractions are exact.
The history variables `exact`, `exactAt` describe an ideal bucket charged for
the same grants, and `gift` what cleanup and late readings gave away. The ideal
bucket does not depend on what the code stores, and the two properties compare
the code's bucket with it from either side.

### TransformPipeline

The unit of state is a request: which step it is at, the generation of the
source it read, its format, its output and its answer. The transform cache is
the map `store` and the origin cache the map `origin` (see the next section for
the files below them). Steps are cut where another worker can observe or change
shared state: each access to a cache, the fetch_add and the fetch_sub of the
slot, the read of the source. A file is read as it is (`Resolve`); a URL (`Remote`)
is answered from the origin cache or fetched (`Fetch`) and put there (`Fill`),
under a key that has no version. Validation, redirects and limits of the fetch are
in `SourceFetch`; here it succeeds or fails. Each generation of an image has a
pixel count of its own. The histories `since` and `tagged` are the generations
that a reader could be given when a request arrived and when a version was put in
place. Expiry is the removal of an entry, which is what it is to a reader as long
as the wall clock does not go back. A key is
the record of what `compute_cache_key` distinguishes, not a hash: distinct
inputs have distinct SHA-256 digests by assumption. All options besides format
and watermark are one equivalence class, since they enter the key the same way.
An owner may replace a stored image at any time; a version tag is handed out
only once the bytes it names are in place. An answer of kind image stands for
200 and for the 304 without the same body.

### AtomicCache, TransformCache

`AtomicCache` is what callers may assume: a map in which a put takes effect at
once, that may forget an entry at any time, and whose lookups answer the value
their key had at some moment of the call, or nothing. `TransformCache` is the
code on files: inodes, directory entries, temporary names, open handles,
modification times, partial writes, failures, eviction by scan, crash, and
damage from outside. Its refinement mapping takes an entry to the value of a
whole file under its path, and a reader to the value behind its handle.
A new file gets an arbitrary free inode, fixed by `CHOOSE`: inodes are
interchangeable. A read may fail. Removing a file the process owns succeeds.

### ServerLifecycle

The main thread (`LoopTop`, `Poll`, `CheckSignal`, `Accept`, then `JoinNext`,
`WaitOver`), the workers (`Recv`, `Handled`, `Exit`), the signal handler in its
two steps (`SignalFlag`, `SignalPipe`), clients and the clock. The main thread
is prompt: time passes only while it is blocked. Workers may take any time.

### SourceFetch

One call of `resolve_source_bytes` or of the watermark fetch per worker. The
remote path is cut where the world can change under it: the validation of the
URL asked for (`Vet`), the two ends of the cache lookup, and for each hop the
validation (`Prepare`), the connection (`Connect`) and the response
(`Redirect`, `FetchFails`, `ReadBody`), then the `Put`. Each look at the name
service may give another answer, and `hop.pinned` is what `PinnedResolver`
holds of the one that was checked. Bytes remember, as a history, the URL and the
address they came from. A URL is what `validate_remote_url` tells
apart: well formed with a usual port, with an unusual one, spelling a metadata
host, or malformed; an address is public, private or a metadata service. The
origin cache is an instance of `AtomicCache`, which `TransformCache` refines;
a server without a cache root behaves like a cache that never holds anything.
A restart may change `TRUSS_ALLOW_INSECURE_URL_SOURCES` and
`TRUSS_MAX_SOURCE_BYTES` while the cache stays. Timeouts are failures.

### Connection

`handle_stream` for one client that sends a plan of requests; the network cuts
the stream as it likes. A byte carries, for the properties, where it came from;
the reader looks only at whether a header terminator ends there. The four bytes
of the terminator are one byte. Grammar errors, limits, early refusals, panics
and lost clients are outcomes; which header text causes them is not modelled.

### HealthCache

One resource, memory or disk space, chosen at the start. The value, its
timestamp and the hysteresis state are read and written in the order and the
granularity of the atomics. A measurement may fail, and then the check passes
without a value. The recovery point lies at or beyond the threshold, or is 0,
which is what a margin of NaN makes of it (`HealthAssumption`).

### Options, Geometry, RasterCodec, SvgSanitizer, SvgCodec, Transform

`Options` is the vocabulary of `core.rs`: what a media type may be asked for,
the rules of `validate_without_input` and `normalize` in the code's order, and
the normalized record. `Geometry` is the integer arithmetic of sizes. Where the
code scales in `f64` and rounds half away from zero, a scale here is an exact
ratio; of the angles there are the quarter turns and the diagonals.

`RasterCodec` runs one transform stage by stage: acceptance, passthrough,
decoding, orientation, crop, resize, turn, filters, watermark, encoding or the
search for a quality, metadata and warnings, with a deadline that may pass
before every stage that looks at it. An image is its size, its transparency and
how it has been turned, a turn being a flip and quarter turns, so that
orientations compose exactly. A tag has one of the three forms in which `core.rs`
reads it, of which the library resets one (`TagReset`). `grown` is the largest buffer a stage asked for.
Encoders choose lengths and scores freely.

`SvgSanitizer` folds the pass over the events of the XML reader, with the CSS
lexer and the rules it drops; `SvgCodec` settles the document event by event and
then hands it back or draws it through the raster stages. Which events a
document has is chosen as they are read, so one request stands for every
document over its palette.

### Sniff, Config, PresetWatcher, CommandLine, WasmAdapter, Frontends

`Sniff` walks the headers of each container with real offsets and lengths. What
stands at an offset is settled when a walk first reaches it and found again by
the next walk, so all chunk lists, lying lengths and truncations of a size are
covered, and two walks over one file read the same bytes.

`Config` says which environments `from_env` takes and what it makes of them,
the storage clients and their endpoint checks included. A number is told by
where it stands relative to its range. Address widths are `AddressBits`.

`PresetWatcher` is start-up (`LoadConfig`, then `FirstStat` in the watcher's
thread) and the polling loop, against an operator who writes in place (begin
and end of a write, with a modification time that may be the same for both) or
replaces the file. Successive edits get different modification times.

`CommandLine` is one invocation: the line and its rules, the input from a path,
standard input or a fetch with redirects, the sniff, the watermark, the
transform (any answer `Transform` may give), and the replacement of the output
file step by step with a fallback that writes through, a rival process on the
same path and a kill at any step; and `serve` and `validate` up to the bound
listener. `Waiting` in `Frontends` says where it is blocked on somebody else
without a timeout. `WasmAdapter` adds the exported calls and `Frontends` composes all of
it with the watcher of the server that was started.

### SignedUrl, Multipart, Negotiation, Metrics, HttpServer

`SignedUrl` has both signers, each with its own argument checks, the verifier,
and the request read back from the query; a query is a function from names to
values and stands for its sorted, encoded text. HMAC is injective by assumption.
`Multipart` reads a body of tokens; a file may hold any token, those of the
boundary included. `Negotiation` reads `Accept` as segments with weights in
thousandths and has the headers and compression of the answer. `Metrics` is the
counters and the histogram, one atomic operation at a time.

`HttpServer` composes them along `handle_stream`, `route_request` and the
handlers. Handling a request reads nothing another worker writes except the
limiter, the caches and the slots, which have models of their own; so it is one
step, the limiter's verdict is an input, and recording the answer is several. A
head that cannot be read (`RefuseHead`) is answered by `Connection` and counted
by nothing.
Left to the other modules are the pixel limit, the slots and the caches
(`TransformPipeline`), sources that fail (`SourceFetch`) and the refusal of
several frames (`Transform`). The trusted networks are the set of the addresses
in them, and the conversion of a path to an object key is left out.

## 3. Runs

`tlc -config <cfg> <module>`; the passing runs need between a second and three
minutes. A run that ends in a violation shows the code doing something other
than a document or a comment of the repository says; `PROJECT.json` quotes the
line, and section 4 has the rest of that kind.

| Run | Result | What it shows |
|---|---|---|
| `rate_race` | holds | no client is held below its rate; grants beyond it are exactly those the two leaks below explain |
| `pipeline_requests` | holds | right image, none older than its request may accept, through both caches; slots exact and bounded; the pixel limit applies to every answer but a versioned hit |
| `cache_files` | holds | the files implement the atomic map; no partial entries, no leaked files; a scan reaches the budget |
| `lifecycle_drain` | holds | what is left behind, the time of a shutdown; it ends even with stuck workers, and live workers handle every accepted connection |
| `source_fetch` | holds | requests go only where the settings allow, limits and whole bodies at every source; after a restart, the bytes answered are from where its settings allow, but for two kinds of cached bytes |
| `connection_framing` | holds | requests are cut where the client cut them and whole ones are served |
| `health_probes` | holds | a breach is reported under any interleaving, unless the margin is NaN; freshness and hysteresis for probes that do not overlap |
| `codec_transform` | holds | orientation and turns compose to what was asked, buffers stay within the limit, content inside its canvas, sanitized documents are inert and stay as they are when sanitized again |
| `frontends_uses` | holds | whole outputs, no stray files, truthful exit codes, agreeing orientation readings, an end to every walk and to every command that is not left waiting, presets that catch up |
| `http_requests` | holds | signed URLs of both signers are served as meant and nothing else is, the right client is charged, uploads and `Accept` are read right, and no request is lost from the metrics |
| `frontends_panic` | violated | a PNG cut behind an `acTL` header panics the sniffer |
| `http_gif` | violated | a GIF asked for with `Accept: image/*` is answered 415 |

### What the properties except, and why

Some properties hold only with an exception that the code makes necessary. The
exception is part of the formula, and is as narrow as the code allows:

- `GrantsCovered` allows the units in `gift`. They come from two places: a
  clock reading taken before the lock and applied after a later one moves
  `last_refill` backwards, and the interval is refilled again; and the idle
  cleanup replaces a bucket that is not full by a full one (with the default
  idle limit this needs a burst of more than that many seconds of the rate).
- `PolicyApplied` excepts versioned hits: the first lookup answers before the
  image is read, and the second after the image of today was measured, with an
  entry that may have been made from an earlier and larger one.
- `NeverStale` measures a request for a URL by what the origin cache held, or was
  about to be given, at its arrival, or when its version was put in place: an
  entry lives for its TTL whatever happens at the origin, and a version in the
  request is no part of its key. So a new version of a URL may be answered with,
  and stored as, the bytes of an old one. Nothing older than what was there
  at that time ever comes out of it. Files and objects have no such exception.
- `CounterExact` counts a refused request until its decrement. In that moment a
  third request may be refused although the slot is free.
- `EvictionReaches` speaks of a scan that ran. A put within the throttle
  interval starts none, so the directory stays over its budget until the next
  put after it.
- `ShutdownBounded` excepts spurious wakeups of the condition variable: the
  wait restarts with the time computed before it.
- `WithinLimit` excepts a file that is replaced between the look at its size and
  its read.
- `HitUnderPolicy` excepts cached bytes that a redirect led to, and those of a
  name that has other addresses now. An entry is kept under the URL that was
  asked for and does not say where its bytes came from, so that what a more
  permissive process fetched is answered until it expires if that URL itself
  passes today's check.
- `FreshUnlessRaced` and `RecoversPastMargin` are about probes that do not
  overlap. An overlapping probe can store the value of an older measurement
  under the time of a newer one, or overwrite the hysteresis state the other
  has just set. `BreachReported` has no such condition.
- `RecoversPastMargin` allows a probe whose measurement failed to pass, if the
  check is still failing for the next one; `BreachReported` excepts disk space
  under a margin that is NaN, once the check was failing.
- `PresetsCatchUp` excepts the version written between the first read of the
  file and the watcher's first look at its modification time.
- `ShownAsMeant` allows an orientation that cannot be kept when
  auto-orientation is off, if a warning says so, and excepts an encode that turns
  the pixels and retains a tag which is not a SHORT in a bare block: the library
  call that resets the tag does not find it, and its answer is not asked.
- `CommandEnds` allows a command to stop for good at a wait that has no limit, but
  not to go on for ever.
- `OutputWhole` and the last conjunct of `ExitTells` except `replace_file`'s
  documented fallback, which truncates and writes in place where the directory
  takes no temporary file.
- `NoStrayTemporary` allows a file whose name the error report gives.
- `TagsAgree` excepts an Exif segment after the frame header, see section 4.
- `SignedServed` asks for a method the routes serve, that the server's own rules
  take the options (`Taken`: a preset may hold what `into_options` refuses) and
  that the limiter lets the request pass. `Meant` reads an option at its default as one
  not set, as both signers do.
- `ChargedToClient` assumes proxies that append the bare address of their peer;
  entries that are no address, `ip:port` included, are skipped.
- `UploadAsSent` is about forms in which no part contains a delimiter the
  grammar itself would end it at (`Unambiguous`).
- `AcceptHonoured` takes the weight of a type to be the greatest of the ranges
  that match it, as the code does, see section 4. Where `*/*` alone gives the
  greatest weight, the format asked for is the input's own, or PNG for a GIF.
  Answers in the input's own format are held to the same rule as others.
- `MetricsExact` is about the counters once nothing is being recorded, and about
  the requests whose head was read.

### Bounds

Every bound is a constant named in its module. Two workers suffice for the
races of the limiter, of the probes and of the metrics, which are between a pair
of calls. Two requests with one slot reach a refusal beside a holder; collisions
of cache keys are between pairs of requests, with a format named or negotiated, a
watermark, one replacement of each image by a smaller one and one restart with
another pixel limit. `Asked` keeps what a pair needs: the watermark on the file
and the upload, every version of the URL, the negotiated format with and without a
version. The cache has
two threads, a transform and an origin key, two values, two puts, and enough
inodes for an entry, a handle on a replaced file and a file being written by each
thread; time runs far enough for an entry and an abandoned file to age. Two
connections and two workers that may get stuck reach a queue that fills while
workers are busy, and both orders of a signal and an arrival. The fetch has one
worker, since workers share nothing there but the cache, whose concurrency
`TransformCache` covers; one URL of each shape, which redirect to one another,
two redirects, and sizes on both sides of each limit; watermarks, which differ in
limit and cache namespace only, are asked for under one of the URLs (`Asked`). Three pipelined requests
with `keep_alive_max_requests` of two reach the connection that must close with
bytes left over, and a read of three bytes spans two short requests.

A transform, a command and a request each run alone, so their instances are
families of inputs, each family turned to one hazard: every orientation class
against turns and metadata policies, every pair of containers, boxes and turns
around pixel limits of a few pixels, each stage with a deadline, documents of
four events beyond the root, stylesheets of three pieces, and of five where
dropped pieces may let others join. Files have every size at which one more field
or chunk still fits, and lengths that are too short, exact and past the end.
Environments have one fault at a time, since the first fault refuses. Signed
calls vary one aspect at a time from a plain call and in pairs where aspects
meet (presets and options, keys and secrets), and every single alteration of a
signed URL is tried against three servers. `U32Max` and `I64Max` stand for the
ends of the integer types. Deadlock checking is off because every model has
bounded inputs and comes to rest when they are used up. Symmetry is used for
threads, addresses, requests and workers, in runs without liveness.

### Fairness

- Lifecycle, `StuckSpec`: the main thread runs, the clock advances, and an
  interrupted signal handler is resumed. Nothing is assumed of workers.
  `AcceptedServed` adds `WorkersLive`: workers finish. Socket timeouts bound the
  client's side and the request deadline bounds connections to and bodies from
  an origin; the wait for the head of an origin's response has no limit of its
  own, so the property assumes origins that answer or close.
- Frontends: a started process takes its steps except where it waits for somebody
  else without a limit (`Waiting`): for the end of standard input or of a pipe
  given as a path (`cli/mod.rs:1661`), for the head of a response, since only the
  connection and the body have timeouts (`cli/mod.rs:1766-1771`), or for a reader
  of standard output or of a pipe at the output path (`convert.rs:443`). There
  nothing is assumed. The checks of the object stores at the start of a server end
  after two seconds (`s3.rs:52`, `gcs.rs:46`, `azure.rs:49`). The sniff takes its
  steps, which is what makes `CommandEnds` a statement about the walks and the
  redirects; the watcher's thread wakes from its sleeps and waits for nobody. The
  operator, the rival and the kill are under no obligation.
- Transform: the thread that runs a transform goes on.

## 4. Statements the code does not keep

Two have runs, `frontends_panic` and `http_gif`. The others are definitions, or
small changes of a configuration, that TLC refutes in the models as they stand:
put the name into the configuration as an INVARIANT (or PROPERTY) to see it.

| Statement | Where it is said | What the code does |
|---|---|---|
| `PolicyTakesEffect` (`TransformPipeline_requests.cfg`) | `handler.rs:1547`: a lowered limit "takes effect immediately, even for previously-cached images" | a versioned request is answered from the cache before the limit is applied (`cache.rs:779`), and one whose format is negotiated passes the limit with the image of today and then finds the entry of an earlier, larger one under its version (`handler.rs:1564-1577`) |
| `TighteningInvalidates` (`SourceFetch_remote.cfg`) | `remote.rs:18` "tightening restrictions invalidates previously cached responses", `remote.rs:170` "cached responses from a permissive configuration cannot be served after tightening restrictions" | only the URL that is asked for is checked again; bytes that a redirect, or an earlier answer of the name service, led to are answered (`remote.rs:174-191`) |
| `OkOnlyPastMargin` (`HealthCache_probes.cfg`) | `docs/configuration.md:25` "the value must recover past threshold ± margin before the check returns to ok" | a failed measurement makes a failing check pass (`handler.rs:926`) |
| `TurnedOnce` (`Transform_requests.cfg`) | `docs/pipeline.md:14` "the tag is reset so the viewer does not turn the pixels again"; also `docs/openapi.yaml:1084` and `README.md:385` | the reset finds only a SHORT in a bare block and its answer is discarded (`raster.rs:2903-2910`), while `core.rs:3028-3095` also reads a LONG and a prefixed block: the pixels are turned and the tag stays |
| `EntriesComplete` with `NameOf` giving both threads one name (`TransformCache_files.cfg`) | `cache.rs:285` readers never see partial data; `cache.rs:421` a second process may share the root | the temporary name is the process id and a counter, and two containers both have PID 1 (`cache.rs:603`) |
| `EveryRequestLogged` (`Connection_framing.cfg`) | `docs/configuration.md:107` "Every request emits a JSON access log line" | an answer that cannot be written is counted and not logged (`routing.rs:506`) |
| `StalledIsTimeout` (`Connection_framing.cfg`) | `docs/problems.md:132` a client that stops in the body gets request-timeout | a read error in the body is answered 500 (`http_parse.rs:237`) |
| `LossReported` (`Transform_requests.cfg`) | `raster.rs:2859` what cannot travel is reported | `raster.rs:2570-2643` drops some kinds without a warning |
| `DescribesOutput` (`Transform_requests.cfg`) | `core.rs:190` width and height as stored | when the input's own bytes are handed back, the size reported is that of the turned image (`raster.rs:113-149`) |
| `MarginInRange` (`Frontends_uses.cfg`) | `docs/configuration.md:25` "range: 0.01-0.50" | `NaN` passes both comparisons (`config.rs:1602`); the recovery point is then 0, so disk space that failed once passes below the threshold, and memory never recovers |
| `TagsAgree` without its exception | `core.rs:2952` the two readings agree | `sniff_jpeg` stops at the frame header, `exif_orientation` goes on (`core.rs:3139`) |

Further observations met while modelling, for which no document promises
otherwise or the promise is loose: an SVG input ignores `optimize` and
`targetQuality` when drawn; a corrupt file ends the command with exit code 3 or 4
depending on where it is noticed (`cli/mod.rs:98`); the WebAssembly
`declaredMediaType` "gif" is refused as an output type although it declares an
input; the Azure reachability check takes a transport error other than a timeout
for reachable (`azure.rs:51-66`); `serve --signed-url-key-id ""` is accepted;
object stores are read under the constant source limit and multipart watermarks
under the constant watermark limit, whatever the settings say; `image/*,
image/webp;q=0` may still yield WebP, since the greatest weight wins over the most
specific; TIFF cannot be named in `Accept`; `*, gzip;q=0` accepts gzip; the
JavaScript signer signs `withoutEnlargement` without a dimension, which the server
answers 400; a version in the request of a URL does not reach the origin cache
(`remote.rs:174`), so a new version may be answered with old bytes for the cache's
lifetime; a request whose head cannot be read is answered and not counted in
"Total HTTP requests handled" (`routing.rs:194-211`, `docs/prometheus.md:54`); both
signers omit options at their default, so a rotation of 0 cannot
override that of a preset; a scrape in the middle of an observation may see
buckets that are not cumulative; an answer that fails to be written records no
duration.

## 5. Proofs

`TransformPipelineProofs` proves, for any sets of requests, images, formats and
watermarks and any limit (`PipelineAssumption`: finitely many requests, and the
distinguished values outside the sets they extend):

- `SlotCounterExact` and `SlotsBounded`, from `SlotInv`: the counter equals the
  number of requests in `Counted`, and those in `Holding` are within the limit.
  The bound alone is not inductive: that a successful `FetchAdd` found a free
  slot is known only because the counter covers every holder.
- `PipelineTypes`, from `TypeInv`, which adds that a request past negotiation
  has a format, without which the keys and bodies built from it have no type.
- `AnswersAreRight` and `AnswersAreFresh`, from `AnswerInv`: what the origin cache
  holds or is about to be given is no older than the histories say (`Onward`),
  what a request read is no older than it may accept (`BytesFresh`), every entry
  of the transform cache is coherent with its key (`StoreCoherent`: same image,
  format and watermark, a generation equal to a content key's, and for a version
  key one that a request for this version may accept), the body of a request fits
  what it asked for (`OutputRight`), and so do the answers given (`AnswersFit`).
  The entry written by one request is the answer of another, so the statement
  about answers needs the one about both caches.
- `LimitApplies`, the action property `PolicyApplied`, from `LimitPassed`: the bytes
  that a request behind `Inspect` has read are within the limit of the process that
  runs it, since none outlives its process, and an entry under a content key was
  made from these very bytes (`StoreCoherent`).

`SourceFetchProofs` proves the six invariants of `SourceFetch` (`FetchTypes`,
`SentAllowed`, `HitsVetted`, `LimitsKept`, `BodiesWhole`, `BudgetKept`) for any
workers, URLs, sizes, limits, redirect budget and answers of the name service
(`SourceFetchAssumption`: the shapes, addresses and numbers are what they are
meant to be; `NoneAssumption`: `None` is none of the values). One invariant
carries all six: a call past `Vet` keeps the validated resolution, and what it
fetched itself came from where the settings allow (`PolicyInv`), the requests sent are the index of the loop, plus one after the
connection (`BudgetInv`), bytes on their way to the cache are whole and within
the limit (`BytesInv`), and so are the entries, whole but of any size
(`CacheInv`), which is why a hit has to be measured again.

`RateLimiterProofs` proves `LimiterTypes`, `ClientsAreNotUnderserved` and
`EveryGrantIsCovered` for any addresses, workers, rate, burst, idle time and
clock. `LimiterInv` brackets each stored bucket: refilled to now it is at least
the ideal bucket and at most that plus `gift`, and no reading or bucket lies
ahead of the clock. The two properties are its two sides.

`TransformCacheProofs` proves, for any workers, keys, bodies, inodes and times
(`CacheAssumption`: keys are digests, so finitely many, and the atomic counter
gives each put a temporary name of its own):

- `EntriesAreComplete` and `NoTemporaryLeaks`. The inode of a writer is referred
  to by nothing but its own temporary path, so what it writes cannot be seen
  before its rename.
- `FilesImplementCache`, the refinement of `AtomicCache`: the initial states map
  to initial states, and there is a step for every action that shows which
  abstract step, or stutter, it is. A rename over an open file, the expiry by
  modification time and a crash are the cases with content.
- `EvictionReachesBudget`, from `EvictInv`: the size a pass still counts is at
  least the size of the scanned files that are left. A sum over a finite set is
  not a recursion the prover unfolds; the facts about it are had from the least
  counterexample (`WFMin` on the naturals), which is also used below.

`ServerProofs` proves, of `ServerLifecycle`, `LifecycleTypes`, `ConnectionsAreOwned`,
`NothingIsLeftBehind` and `ShutdownIsBounded` for any connections, workers and
periods (`LifecycleAssumption`: finitely many connections). `LifecycleInv` adds
the deadlines that follow from the signal (`Timely`), and that until the budget
is spent the main thread moves on only from workers that have left, which they
do only when the channel is empty for good (`Joined`).

It also proves, of `Connection`, `RequestsAreFramed` and
`WholeRequestsAreServed`, for any requests a client writes (`PlannedRequests`),
any cut into packets and any limits (`ConnectionAssumption`: a read takes at
least one byte and a connection at least one request). `Framed` speaks of the
requests that were handled, so nothing follows from it about the next one;
`ConnectionInv` says what the reader holds at each step: between requests the
buffer is the stream from the end of the last request to what was read
(`Holds`), behind the header the stream from the start of the body
(`HoldsBody`), while a body grows the part of it that was read, with nothing left
over until it is whole (`Growing`). That the first terminator in such a buffer is
the header's own, whatever the body behind it contains, is the step of
`ParseHead`. The stream is a flattened sequence, a fold of the community
modules, whose one equation (what a further request adds) is proved from the
least counterexample.

`HealthCacheProofs` proves `ProbeTypes`, `BreachesAreReported`,
`MeasurementsAreFresh` and the action property `RecoveryIsPastMargin` for any
workers, lifetime, values and margins, NaN included. The last two except overlapping probes, as the
properties do; `AloneInv` says what the cached pair means, and that a failure that was answered
is still in the hysteresis state, as long as probes have not overlapped.

`TransformProofs` proves, of `Frontends`:

- `OutputIsWhole`, `NoTemporaryStrays` and `ExitCodeTells` for any uses, from
  `FrontInv`: what stands at the output and at the temporary path at each step
  of the replacement, a rival's file included.
- `TagsMatch`, for any files and headers (`LengthsAssumption`, `JobsAssumption`:
  lengths and sizes are numbers), from `SniffInv`. The two walks over a JPEG are
  separate loops, and what the first one kept has to be known while the second
  is on its way: the headers met so far are a trail, each leading to the next
  (`Trail`); the tag kept is that of the first Exif segment on it (`Kept`); and
  the second walk stays on the trail and has not passed that segment
  (`Follows`).

and, of `Transform`, for any requests, limits and encoder outcomes
(`LimitsAssumption`, and `RequestsAssumption`: fields of their types, a rotation
already reduced, a tag only in a file that carries Exif):

- `OutputIsShownAsMeant`, `BuffersAreBounded` and `ContentIsPlacedInside`, from
  `TransformInv`: options behind `normalize` are sound (`SoundOptions`: no empty
  axis, a fit has both), the image the stages work on is not empty and has been
  turned upright and as asked from the rotation on (`Pictured`), and a watermark
  that is about to be encoded fits the image (`WatermarkFits`). The lemmas below
  it are about the geometry: quotients, scaled sizes, covers, rotated boxes, crops
  and offsets of any integers.
- `DocumentsAreSanitizedOnce`, for documents of any length, nesting and text
  (`DocumentsAssumption`: the events are events of the reader), from `SanitizeInv`.
  The property compares a document with what a second pass makes of it, once the
  first has ended; the invariant (`PassOk`) says at every event that a second
  pass over what has been written so far stands where the first one does
  (`Mirrors`: same element and depth counts, same entities, inside a style sheet
  together), that the reader's depth is what is written, dropped and nested in a
  style sheet together (`Counted`), and that what is written is inert
  (`Written`). Below it: cleaning CSS leaves nothing to clean (`Fixed`,
  `Cleaned`: the tokens written do not join into new ones, and the parentheses
  around each are those the first pass saw), so cleaned CSS fetches nothing
  (`FixedIsInert`), and an attribute that is kept is kept again as it is
  (`GoodAttribute`). The folds over events, attributes and tokens are recursive
  functions; what one more element adds is proved once for all of them
  (`FoldNext`), and facts about all sequences by induction over a set of
  sequences (`SeqSet`), which needs no operator parameter. The proof found that
  two arms of the model's `sanitize_attributes` overlapped for an event handler
  whose value mentions a resource; they are now in the order of the code.

`HttpServerProofs` proves, for any configurations, inputs and finitely many
workers, under `InputAssumption`, which says what can reach a server: the peer
is the last hop, a trusted proxy appends the address that connected to it, and
a MAC under a key of the server was made by a signer for the call the request
is traced to (HMAC is not forged); the arguments of a signer have their types
(`CallRead`), the preference names media types, a public base has a scheme, and
a form that was sent is in the body part by part (`FormSent`, `IsForm`):

- `ClientsAreCharged`: the search of `resolve_client_ip` from the right ends at
  the nearest address of the real path that is not trusted.
- `WorkIsAuthorized`: work leads back through `route_request` and the handler to
  a check that passed; and a signature that verifies fixes the whole query,
  since the signer's and the verifier's canonical texts have the same parts
  (`PartsApart`, `SignedQueryIs`, `VerifiedQuery`).
- `SignedUrlsAreServed`: the converse. What either signer writes the names of a
  query pass, the canonical texts of signer and verifier are equal, every value
  reads back as what was written, and the options read are those the call meant.
  The first attempt at this proof found two cases the property had left out, and
  no instance had reached: a method that the signer takes and the routes do not
  serve, and a preset whose own options `into_options` refuses. Both are now
  conditions of the property, and inputs of the run.
- `AcceptIsHonoured`: the best of the offered types under the code's order is of
  greatest weight and, of these, matched by the most specific range; the property
  says the same by what the header writes (`Favoured`), so that the two readings
  are compared (`MatchFacts`, `NegotiationHonours`). The candidates are the base
  types in the server's order, with the input's own type in front if it is none of
  them, and the format that `*/*` keeps is one of them (`OfferedFacts`).
- `UploadsAreReadAsSent`: the search for the end of a header and of a body finds
  the ones that were written (`HeadFound`, `BodyFound`: an earlier boundary
  that counts would contradict `Unambiguous`), so a part at its place is read
  back as it is (`PartParsed`). The loop is a recursive function of the cursor;
  that it is well defined follows from the cursor always going forward
  (`GoesForward`, `Walked`), and that it returns the parts of the whole form
  from the least number of parts for which it would not (`FormParsed`).
- `MetricsAreExact`, from `MetricsInv`: every counter is what the history says,
  plus the workers that are ahead of the history with it. The property speaks of
  quiet states only, so it says nothing from which a step could be argued. The
  sum needs the durations of the workers between the compare-exchange and the
  buckets, whose sum is given by a witness function on sets of workers instead
  of a recursion.

Each proof has one step per action. Cardinality facts come from
`FiniteSetTheorems`, least elements from `WellFoundedInduction`. Every inductive
invariant was model-checked before it was proved. Definitions that proofs expand
twice in one obligation are written with IF rather than CASE: the SMT
translation of this version of the prover is not to be trusted with two CASE
expressions that share their first arm.

Only model-checked: liveness under fairness (`ShutdownEnds`, `AcceptedServed`,
`CommandEnds`, `PresetsCatchUp`), which the prover does not support.

## 6. Not modelled

Pixel values and the codec libraries; the text of headers, logs, metrics, help
and completions; JSON, form and percent encoding; cryptography; the file system
below the process (no power failure, so the missing sync before a rename is not
examined); the Windows variants; rotations that are no multiple of 45 degrees;
rounding of `f64` beyond exact ratios. The repository's tests, examples, web
demo and packaging are not part of the program. The components in part modelled
say so in `PROJECT.json`.

Known exposures that no property covers, because the code and its documents
promise nothing there or real durations decide: a cache entry is renamed without
a sync; a put inside the throttle interval that is the last one leaves the
directory over its budget; an accept error other than `WouldBlock` ends the
server with connections still queued (the lifecycle model has this end, and its
liveness properties except it); the body of a request has no overall deadline;
neither has the wait for the head of an origin's response.

## 7. Plan

Done: every component of the inventory has a model, and every invariant of the
runs, the two action properties and the refinement are proved. To do, should the
code grow: the parts of the core that are modelled only as far as a property
names them. The modules that proofs are about, and those they extend, have no
RECURSIVE operator.
