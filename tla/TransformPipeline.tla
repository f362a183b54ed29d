------------------------- MODULE TransformPipeline -------------------------
(***************************************************************************)
(* The image request handlers of src/adapters/server/handler.rs, running   *)
(* concurrently on the connection workers: the version-keyed cache lookup  *)
(* that needs no source bytes, the source read, through the origin cache   *)
(* for a URL, sniffing, negotiation and the pixel limit, the second        *)
(* lookup, the concurrency slot, the watermark, the transform, the cache   *)
(* write and the release of the slot.                                      *)
(*                                                                         *)
(* The unit of state is a request.  The two on-disk caches are the maps    *)
(* `store` and `origin`; TransformCache shows what the files underneath    *)
(* them do.  An image answer stands for 200 and for the 304 that leaves    *)
(* out the same body.  The totals of hits and misses, which nothing reads  *)
(* but the metrics page, are left out.                                     *)
(***************************************************************************)
EXTENDS Integers, FiniteSets

CONSTANTS
  Requests,     \* the requests that arrive
  Asked,        \* what they may ask for
  Sources,      \* stored images, which their owner may replace
  Remote,       \* the stored images that are named by URL
  Uploads,      \* images carried in the body of a multipart request
  Formats,      \* output formats
  Unset,        \* a request that leaves the format to Accept
  Wms,          \* watermark identities
  NoWm,         \* no watermark
  Svgs,         \* the sources that are SVG documents
  PixelsOf,     \* pixels of each generation of an image, 0 when sniffing
                \* finds no size
  PixelLimits,  \* values of TRUSS_MAX_INPUT_PIXELS that a start may use
  CacheOn,      \* whether cache_root is configured
  Limit,        \* max_concurrent_transforms
  WorkerCount,  \* connection workers: requests in progress at once
  NoBody,       \* absence of a body
  MaxGen,       \* bound: times a source is replaced, counted from 1
  MaxRestarts   \* bound: restarts of the process

Images == Sources \cup Uploads
Gens == 1..MaxGen

ASSUME PipelineAssumption ==
  /\ IsFiniteSet(Requests)
  /\ Sources \cap Uploads = {} /\ Remote \subseteq Sources
  /\ Unset \notin Formats /\ NoWm \notin Wms
  /\ Svgs \subseteq Images
  /\ PixelLimits \subseteq Nat
  /\ CacheOn \in BOOLEAN
  /\ Limit \in Nat /\ WorkerCount \in Nat
  /\ MaxGen \in Nat \ {0} /\ MaxRestarts \in Nat

\* A request names an image, a version tag (0 for none), an output format
\* and a watermark.  A multipart upload has no version to name.
RequestType ==
  {q \in [src : Images, version : 0..MaxGen, format : Formats \cup {Unset},
          wm : Wms \cup {NoWm}] : q.src \in Uploads => q.version = 0}

\* What a transform produces: the image, the generation of it that was read,
\* and the options that were applied.
Bodies == [src : Images, gen : Gens, format : Formats, wm : Wms \cup {NoWm}]

\* compute_cache_key: the source is named by version or by content digest.
Keys == [by : {"version", "content"}, src : Images, n : Gens,
         format : Formats, wm : Wms \cup {NoWm}]

ASSUME PixelsAssumption == PixelsOf \in [Images -> [Gens -> Nat]]
ASSUME AskedAssumption == Asked \subseteq RequestType
ASSUME NoBodyAssumption == NoBody \notin Bodies

VARIABLES
  req,       \* the requests, fixed from the start
  content,   \* the current generation of each image
  store,     \* the transform cache
  origin,    \* the generation of each image the origin cache holds, or 0
  pc,        \* where each request is
  bytes,     \* the generation of the source each request read
  fmt,       \* the output format each request settled on
  out,       \* the body each request will answer with
  answer,    \* how each request was answered
  inFlight,  \* transforms_in_flight
  pixels,    \* max_input_pixels of the running process
  restarts,
  since,     \* history: the generations of its source that were to be had
             \* when the request arrived
  tagged     \* history: the same, when a version was put in place

local == <<bytes, fmt, out, answer>>
environment == <<req, content, pixels, restarts, since, tagged>>
vars == <<req, content, store, origin, pc, bytes, fmt, out, answer, inFlight,
          pixels, restarts, since, tagged>>

Answers ==
  {"none", "hit", "miss", "uncached", "source_error", "unreadable",
   "not_acceptable", "too_large", "unavailable", "bad_watermark",
   "watermark_error", "transform_error", "dropped", "lost"}

\* The request holds a TransformSlot.
Holding == {"watermark", "transform", "store", "release"}
\* The request is counted in transforms_in_flight: it holds a slot, or was
\* refused one and has not taken its increment back yet.
Counted == Holding \cup {"refused"}
Active == Counted \cup {"lookup", "resolve", "fetch", "fill", "inspect", "cached",
                        "acquire"}
PCs == Active \cup {"new", "done"}

In(set) == {r \in Requests : pc[r] \in set}

VersionKey(r) == [by |-> "version", src |-> req[r].src, n |-> req[r].version,
                  format |-> req[r].format, wm |-> req[r].wm]

\* Mutant: the watermark is left out of the key.
CacheKeyNoWatermark(r) ==
  [by |-> IF req[r].version = 0 THEN "content" ELSE "version",
   src |-> req[r].src,
   n |-> IF req[r].version = 0 THEN bytes[r] ELSE req[r].version,
   format |-> fmt[r], wm |-> NoWm]

\* Mutant: a source without a version is keyed by its name.
CacheKeyByName(r) ==
  [by |-> IF req[r].version = 0 THEN "content" ELSE "version",
   src |-> req[r].src,
   n |-> IF req[r].version = 0 THEN 1 ELSE req[r].version,
   format |-> fmt[r], wm |-> req[r].wm]

\* The key of the second lookup and of the write: the version hash when the
\* request names a version, the digest of the bytes that were read otherwise.
CacheKey(r) ==
  [by |-> IF req[r].version = 0 THEN "content" ELSE "version",
   src |-> req[r].src,
   n |-> IF req[r].version = 0 THEN bytes[r] ELSE req[r].version,
   format |-> fmt[r], wm |-> req[r].wm]

\* The generations of image i that reach a reader through the origin cache, if
\* it is a URL: the one in the cache and the ones that have been fetched and are
\* about to be put there.
InOrigin(i) ==
  IF i \in Remote
    THEN ({origin[i]} \ {0}) \cup
         {bytes[q] : q \in {p \in Requests : pc[p] = "fill" /\ req[p].src = i}}
    ELSE {}

\* The generations that a read beginning now may return.
AtHand(i) == {content[i]} \cup InOrigin(i)

\* The handler returns, and what it held goes with it.
Return(r) ==
  /\ pc' = [pc EXCEPT ![r] = "done"]
  /\ bytes' = [bytes EXCEPT ![r] = 1]
  /\ fmt' = [fmt EXCEPT ![r] = Unset]

Finish(r, a) == Return(r) /\ answer' = [answer EXCEPT ![r] = a]

Goto(r, l) == pc' = [pc EXCEPT ![r] = l]

Init ==
  /\ req \in [Requests -> Asked]
  /\ content = [i \in Images |-> 1]
  /\ store = [k \in Keys |-> NoBody]
  /\ origin = [i \in Images |-> 0]
  /\ pc = [r \in Requests |-> "new"]
  /\ bytes = [r \in Requests |-> 1]
  /\ fmt \in [Requests -> {Unset}]
  /\ out = [r \in Requests |-> NoBody]
  /\ answer = [r \in Requests |-> "none"]
  /\ inFlight = 0
  /\ pixels \in PixelLimits
  /\ restarts = 0
  /\ since = [r \in Requests |-> {}]
  /\ tagged = [i \in Images |-> [n \in Gens |-> {n}]]

-----------------------------------------------------------------------------
(* A request, step by step *)

\* A worker takes up an authorised, well-formed request.  A version tag is
\* handed out once the bytes it names are in place, never before.
Arrive(r) ==
  /\ pc[r] = "new"
  /\ Cardinality(In(Active)) < WorkerCount
  /\ req[r].version <= content[req[r].src]
  /\ Goto(r, IF req[r].src \in Uploads THEN "inspect" ELSE "lookup")
  /\ since' = [since EXCEPT ![r] = AtHand(req[r].src)]
  /\ UNCHANGED <<req, content, store, origin, local, inFlight, pixels,
                 restarts, tagged>>

\* try_versioned_cache_lookup: possible only with a version, a cache and an
\* explicit format.  A hit is answered without reading the source.
VersionedLookup(r) ==
  /\ pc[r] = "lookup"
  /\ IF /\ req[r].version # 0 /\ CacheOn /\ req[r].format # Unset
        /\ store[VersionKey(r)] # NoBody
       THEN /\ Finish(r, "hit")
            /\ out' = [out EXCEPT ![r] = store[VersionKey(r)]]
       ELSE Goto(r, "resolve") /\ UNCHANGED local
  /\ UNCHANGED <<store, origin, inFlight, environment>>

\* resolve_source_bytes: a stored file or object is read, while a URL is looked
\* up in the origin cache first, whose key is the URL without the version.  An
\* entry that is too large by now is an error, like a source that cannot be read.
Resolve(r) ==
  LET i == req[r].src
  IN /\ pc[r] = "resolve"
     /\ \/ /\ i \notin Remote
           /\ Goto(r, "inspect")
           /\ bytes' = [bytes EXCEPT ![r] = content[i]]
           /\ UNCHANGED <<fmt, answer>>
        \/ /\ i \in Remote /\ CacheOn /\ origin[i] # 0
           /\ Goto(r, "inspect")
           /\ bytes' = [bytes EXCEPT ![r] = origin[i]]
           /\ UNCHANGED <<fmt, answer>>
        \/ /\ i \in Remote /\ ~(CacheOn /\ origin[i] # 0)
           /\ Goto(r, "fetch")
           /\ UNCHANGED <<bytes, fmt, answer>>
        \/ Finish(r, "source_error")
     /\ UNCHANGED <<store, origin, out, inFlight, environment>>

\* The fetch that a miss leads to: what the URL's host holds now, or an error.
Fetch(r) ==
  /\ pc[r] = "fetch"
  /\ \/ /\ Goto(r, IF CacheOn THEN "fill" ELSE "inspect")
        /\ bytes' = [bytes EXCEPT ![r] = content[req[r].src]]
        /\ UNCHANGED <<fmt, answer>>
     \/ Finish(r, "source_error")
  /\ UNCHANGED <<store, origin, out, inFlight, environment>>

\* OriginCache::put, over whatever is there by now; its failure is only logged.
Fill(r) ==
  /\ pc[r] = "fill"
  /\ Goto(r, "inspect")
  /\ \/ origin' = [origin EXCEPT ![req[r].src] = bytes[r]]
     \/ UNCHANGED origin
  /\ UNCHANGED <<store, local, inFlight, environment>>

\* Mutant: the pixel limit is not applied.
InspectUnlimited(r) ==
  /\ pc[r] = "inspect"
  /\ \/ Finish(r, "unreadable")
     \/ req[r].format = Unset /\ Finish(r, "not_acceptable")
     \/ \E f \in Formats :
          /\ req[r].format \in {Unset, f}
          /\ Goto(r, "cached")
          /\ fmt' = [fmt EXCEPT ![r] = f]
          /\ UNCHANGED <<bytes, answer>>
  /\ UNCHANGED <<store, origin, out, inFlight, environment>>

\* The head of transform_source_bytes_inner: sniff, negotiate a format when
\* none was named, and apply the pixel limit, in that order.
Inspect(r) ==
  /\ pc[r] = "inspect"
  /\ \/ Finish(r, "unreadable")
     \/ req[r].format = Unset /\ Finish(r, "not_acceptable")
     \/ \E f \in Formats :
          /\ req[r].format \in {Unset, f}
          /\ IF PixelsOf[req[r].src][bytes[r]] > pixels
               THEN Finish(r, "too_large")
               ELSE /\ Goto(r, "cached")
                    /\ fmt' = [fmt EXCEPT ![r] = f]
                    /\ UNCHANGED <<bytes, answer>>
  /\ UNCHANGED <<store, origin, out, inFlight, environment>>

\* The lookup that needed the bytes or the negotiated format.
CacheLookup(r) ==
  /\ pc[r] = "cached"
  /\ IF CacheOn /\ store[CacheKey(r)] # NoBody
       THEN /\ Finish(r, "hit")
            /\ out' = [out EXCEPT ![r] = store[CacheKey(r)]]
       ELSE Goto(r, "acquire") /\ UNCHANGED local
  /\ UNCHANGED <<store, origin, inFlight, environment>>

\* Mutant: the value before the increment is compared with > instead of >=.
FetchAddOffByOne(r) ==
  /\ pc[r] = "acquire"
  /\ Goto(r, IF inFlight > Limit THEN "refused" ELSE "watermark")
  /\ inFlight' = inFlight + 1
  /\ UNCHANGED <<store, origin, local, environment>>

\* TransformSlot::try_acquire, its fetch_add and the decision on the value
\* it returned.
FetchAdd(r) ==
  /\ pc[r] = "acquire"
  /\ Goto(r, IF inFlight >= Limit THEN "refused" ELSE "watermark")
  /\ inFlight' = inFlight + 1
  /\ UNCHANGED <<store, origin, local, environment>>

\* The fetch_sub of a refused acquisition, then the 503.
Refuse(r) ==
  /\ pc[r] = "refused"
  /\ inFlight' = inFlight - 1
  /\ Finish(r, "unavailable")
  /\ UNCHANGED <<store, origin, out, environment>>

\* A watermark on an SVG source is refused; one named by URL is fetched, which
\* may fail, while one that came in the upload is at hand.
Watermark(r) ==
  LET refused == req[r].src \in Svgs /\ req[r].wm # NoWm
      fetched == req[r].wm # NoWm /\ req[r].src \notin Uploads
  IN /\ pc[r] = "watermark"
     /\ \/ refused /\ Goto(r, "release")
           /\ answer' = [answer EXCEPT ![r] = "bad_watermark"]
        \/ ~refused /\ fetched /\ Goto(r, "release")
           /\ answer' = [answer EXCEPT ![r] = "watermark_error"]
        \/ ~refused /\ Goto(r, "transform") /\ UNCHANGED answer
     /\ UNCHANGED <<store, origin, bytes, fmt, out, inFlight, environment>>

\* transform: a body, or an error (an unsupported or failed transform, or the
\* deadline).
Transform(r) ==
  /\ pc[r] = "transform"
  /\ \/ /\ Goto(r, "store")
        /\ out' = [out EXCEPT ![r] = [src |-> req[r].src, gen |-> bytes[r],
                                      format |-> fmt[r], wm |-> req[r].wm]]
        /\ UNCHANGED answer
     \/ /\ Goto(r, "release")
        /\ answer' = [answer EXCEPT ![r] = "transform_error"]
        /\ UNCHANGED out
  /\ UNCHANGED <<store, origin, bytes, fmt, inFlight, environment>>

\* cache.put, whose failure is only logged, while the slot is still held.
Put(r) ==
  /\ pc[r] = "store"
  /\ Goto(r, "release")
  /\ answer' = [answer EXCEPT ![r] = IF CacheOn THEN "miss" ELSE "uncached"]
  /\ \/ CacheOn /\ store' = [store EXCEPT ![CacheKey(r)] = out[r]]
     \/ UNCHANGED store
  /\ UNCHANGED <<origin, bytes, fmt, out, inFlight, environment>>

\* The handler returns and the slot is dropped.
Release(r) ==
  /\ pc[r] = "release"
  /\ inFlight' = inFlight - 1
  /\ Return(r)
  /\ UNCHANGED <<store, origin, out, answer, environment>>

\* Mutant: the slot is released by hand at the end, which unwinding skips.
PanicLeaksSlot(r) ==
  /\ pc[r] \in {"inspect", "transform"}
  /\ Finish(r, "dropped")
  /\ UNCHANGED <<store, origin, out, inFlight, environment>>

\* A decoder panics.  The worker contains it and closes the connection without
\* an answer; unwinding drops the slot if one is held.
Panic(r) ==
  /\ \/ pc[r] = "inspect" /\ Finish(r, "dropped")
     \/ /\ pc[r] = "transform"
        /\ Goto(r, "release")
        /\ answer' = [answer EXCEPT ![r] = "dropped"]
        /\ UNCHANGED <<bytes, fmt>>
  /\ UNCHANGED <<store, origin, out, inFlight, environment>>

-----------------------------------------------------------------------------
(* The world around the requests *)

\* The owner of a stored image replaces it.
Replace(i) ==
  /\ i \in Sources
  /\ content[i] < MaxGen
  /\ content' = [content EXCEPT ![i] = @ + 1]
  /\ tagged' = [tagged EXCEPT ![i][content[i] + 1] = {content[i] + 1} \cup InOrigin(i)]
  /\ UNCHANGED <<req, store, origin, pc, local, inFlight, pixels,
                 restarts, since>>

\* An entry outlives its TTL, is evicted, or is removed as corrupted.
Forget(k) ==
  /\ store[k] # NoBody
  /\ store' = [store EXCEPT ![k] = NoBody]
  /\ UNCHANGED <<origin, pc, local, inFlight, environment>>

\* An origin entry outlives its TTL, or is evicted.
ForgetOrigin(i) ==
  /\ origin[i] # 0
  /\ origin' = [origin EXCEPT ![i] = 0]
  /\ UNCHANGED <<store, pc, local, inFlight, environment>>

\* The process stops, however it stops, and starts with a configuration of its
\* own.  The cache survives on disk; requests in progress do not.
Restart ==
  LET lost == In(Active)
  IN /\ restarts < MaxRestarts
     /\ restarts' = restarts + 1
     /\ pc' = [r \in Requests |-> IF r \in lost THEN "done" ELSE pc[r]]
     /\ answer' = [r \in Requests |-> IF r \in lost THEN "lost" ELSE answer[r]]
     /\ bytes' = [r \in Requests |-> 1]
     /\ fmt' = [r \in Requests |-> Unset]
     /\ out' = [r \in Requests |-> IF r \in lost THEN NoBody ELSE out[r]]
     /\ inFlight' = 0
     /\ pixels' \in PixelLimits
     /\ UNCHANGED <<req, content, store, origin, since, tagged>>

\* Everything a worker may do for a request it has taken up.
Step(r) ==
  \/ VersionedLookup(r) \/ Resolve(r) \/ Fetch(r) \/ Fill(r) \/ Inspect(r)
  \/ CacheLookup(r) \/ FetchAdd(r) \/ Refuse(r) \/ Watermark(r) \/ Transform(r)
  \/ Put(r) \/ Release(r) \/ Panic(r)

Next ==
  \/ \E r \in Requests : Arrive(r) \/ Step(r)
  \/ \E i \in Sources : Replace(i) \/ ForgetOrigin(i)
  \/ \E k \in Keys : Forget(k)
  \/ Restart

Spec == Init /\ [][Next]_vars

-----------------------------------------------------------------------------
(* Properties *)

ImageAnswers == {"hit", "miss", "uncached"}

\* Types of the state.
TypeOK ==
  /\ req \in [Requests -> RequestType]
  /\ content \in [Images -> Gens]
  /\ store \in [Keys -> Bodies \cup {NoBody}]
  /\ origin \in [Images -> 0..MaxGen]
  /\ pc \in [Requests -> PCs]
  /\ bytes \in [Requests -> Gens]
  /\ fmt \in [Requests -> Formats \cup {Unset}]
  /\ out \in [Requests -> Bodies \cup {NoBody}]
  /\ answer \in [Requests -> Answers]
  /\ inFlight \in Nat
  /\ pixels \in PixelLimits
  /\ restarts \in 0..MaxRestarts
  /\ since \in [Requests -> SUBSET Gens]
  /\ tagged \in [Images -> [Gens -> SUBSET Gens]]

\* No slot leaks and none is returned twice: transforms_in_flight is exactly
\* the number of requests that hold a slot or are taking a refused increment
\* back, through every early return, error and panic of the handler.
CounterExact == inFlight = Cardinality(In(Counted))

\* TRUSS_MAX_CONCURRENT_TRANSFORMS holds although try_acquire increments first
\* and asks afterwards: no more than Limit requests ever hold a slot.
SlotBound == Cardinality(In(Holding)) <= Limit

\* An image answer, from the cache or not, is of the image the request named,
\* with the watermark it asked for and in the format it asked for.
AnswersTheRequest ==
  \A r \in Requests : answer[r] \in ImageAnswers =>
    /\ out[r] # NoBody
    /\ out[r].src = req[r].src
    /\ out[r].wm = req[r].wm
    /\ req[r].format \in {Unset, out[r].format}

\* The generations a request may be answered with, those and later ones.
Accepts(r) ==
  IF req[r].version = 0 THEN since[r]
  ELSE IF req[r].src \in Remote THEN tagged[req[r].src][req[r].version]
  ELSE {req[r].version}

\* No answer is older than its request may accept, whatever the other requests
\* leave in the two caches meanwhile.  A request without a version gets bytes
\* that were current when it arrived, or later ones; for a URL, bytes no older
\* than some that the origin cache held, or was about to be given, when the
\* request arrived.  A request that names a version gets that version's bytes
\* or later ones; for a URL, whose version the origin cache does not know,
\* bytes no older than some that were to be had when the version was put in
\* place.
NeverStale ==
  \A r \in Requests : answer[r] \in ImageAnswers =>
    \E g \in Accepts(r) : out[r].gen >= g

\* A lowered pixel limit applies to the image every answer of the new process
\* was made from, cached answers included, with one exception: a request that
\* names a version and is answered from the cache.  The first lookup has not
\* seen the image, and the second has measured the image as it is now, while
\* the entry was made from the image as it was.
PolicyApplied ==
  [][\A r \in Requests :
       pc[r] \in Active /\ answer[r] = "none" /\ answer'[r] \in ImageAnswers =>
         \/ PixelsOf[req[r].src][out'[r].gen] <= pixels
         \/ /\ req[r].version # 0 /\ answer'[r] = "hit"
            /\ pc[r] = "lookup" \/ PixelsOf[req[r].src][bytes[r]] <= pixels]_vars

\* A lowered pixel limit applies to every answer the new process gives, "even
\* for previously-cached images" (handler.rs, transform_source_bytes_inner).
PolicyTakesEffect ==
  [][\A r \in Requests :
       pc[r] \in Active /\ answer[r] = "none" /\ answer'[r] \in ImageAnswers =>
         PixelsOf[req[r].src][out'[r].gen] <= pixels]_vars
=============================================================================
