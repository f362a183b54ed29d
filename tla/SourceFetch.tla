---------------------------- MODULE SourceFetch ----------------------------
(***************************************************************************)
(* Where the bytes of a source or of a watermark come from: remote.rs of   *)
(* src/adapters/server, with the storage root, an object store, and remote *)
(* URLs behind the origin cache.                                           *)
(*                                                                         *)
(* A URL is a record of what validate_remote_url tells apart; the answer   *)
(* of a host name is a set of addresses, and it may differ at every look;  *)
(* so may the size of a file.  The origin cache is used through what it    *)
(* promises, module AtomicCache; without a cache root it is one that never *)
(* holds anything.  Timeouts of the agent are failures that a step may     *)
(* take.  The process may be restarted with other settings, which the      *)
(* cache outlives.                                                         *)
(***************************************************************************)
EXTENDS Integers

CONSTANTS
  Threads,       \* workers
  Urls,          \* remote URLs
  ShapeOf,       \* url -> "web", "odd_port", "metadata_name" or "malformed"
  Paths,         \* source paths under the storage root, well formed
  BadName,       \* a path or an object key that is refused as written
  Objects,       \* keys of the object store
  Sizes,         \* sizes of bodies, files and objects
  Resolutions,   \* answers of the name service, {} for a failure
  SourceLimits,  \* values TRUSS_MAX_SOURCE_BYTES takes
  MarkLimit,     \* TRUSS_MAX_WATERMARK_BYTES
  StoreLimit,    \* MAX_SOURCE_BYTES, which the object stores apply
  MaxRedirects,  \* TRUSS_MAX_REMOTE_REDIRECTS
  Asked,         \* the calls that are made
  None

ASSUME SourceFetchAssumption ==
  /\ ShapeOf \in [Urls -> {"web", "odd_port", "metadata_name", "malformed"}]
  /\ Resolutions \subseteq SUBSET {"public", "private", "metadata"}
  /\ Sizes \subseteq Nat /\ SourceLimits \subseteq Nat
  /\ {MarkLimit, StoreLimit, MaxRedirects} \subseteq Nat

Addrs == {"public", "private", "metadata"}

\* The namespaces of the origin cache are the two kinds of remote fetch.
Spaces == {"src", "wm"}
Calls == (Spaces \X Urls) \cup ({"path"} \X (Paths \cup {BadName}))
           \cup ({"object"} \X (Objects \cup {BadName}))

\* Bytes in memory or in the cache; whole unless cut off at a limit.  Which
\* URL gave them and from which address is a history: a cache file does not
\* say it.
Bodies == [size : Sizes, whole : BOOLEAN, url : Urls \cup {None}, addr : Addrs \cup {None}]

\* How a call ends: the bytes, or the class of the error response
Outcomes == {"ok", "bad_request", "forbidden", "not_found", "bad_gateway",
             "internal_error", "too_large", "too_many"}

ASSUME AskedAssumption == Asked \subseteq Calls

ASSUME NoneAssumption ==
  None \notin Urls \cup Calls \cup Bodies \cup Sizes \cup Addrs \cup Outcomes

VARIABLES
  insecure,  \* TRUSS_ALLOW_INSECURE_URL_SOURCES of the running process
  limit,     \* its TRUSS_MAX_SOURCE_BYTES
  store, seen, reply,  \* the origin cache, see AtomicCache
  pc,
  call,      \* per thread: what is asked for, <<kind, name>>
  hop,       \* per thread: the state of the redirect loop
  statted,   \* per thread: the size metadata gave
  body,      \* per thread: bytes it read, or None
  out,       \* per thread: how the last call ended
  vetted,    \* history: the addresses the first validation of the call saw
  sent,      \* history: requests the call sent
  moved      \* history: a file was replaced since the call looked at its size

\* current_url, redirect_index, RemoteFetchTarget.addrs (what the resolver of
\* the agent is pinned to) and the address the request went to
Hops == [at : Urls \cup {None}, index : 0..MaxRedirects, pinned : SUBSET Addrs,
         peer : Addrs \cup {None}]
Hop(u, i, addrs, a) == [at |-> u, index |-> i, pinned |-> addrs, peer |-> a]
NoHop == Hop(None, 0, {}, None)

config == <<insecure, limit>>
cache == <<store, seen, reply>>
history == <<vetted, sent, moved>>
vars == <<insecure, limit, store, seen, reply, pc, call, hop, statted, body, out,
          vetted, sent, moved>>

OriginCache == INSTANCE AtomicCache
  WITH Keys <- Spaces \X Urls, Vals <- Bodies, NoVal <- None

Init ==
  /\ insecure \in BOOLEAN /\ limit \in SourceLimits
  /\ OriginCache!Init
  /\ pc = [t \in Threads |-> "idle"]
  /\ call = [t \in Threads |-> None]
  /\ hop = [t \in Threads |-> NoHop]
  /\ statted = [t \in Threads |-> None]
  /\ body = [t \in Threads |-> None]
  /\ out = [t \in Threads |-> None]
  /\ vetted = [t \in Threads |-> {}]
  /\ sent = [t \in Threads |-> 0]
  /\ moved = [t \in Threads |-> FALSE]

Kind(t) == call[t][1]
Name(t) == call[t][2]

\* RemoteFetchPolicy.max_bytes, and the limit of the other sources
MaxBytes(t) ==
  CASE Kind(t) = "wm" -> MarkLimit
    [] Kind(t) = "object" -> StoreLimit
    [] OTHER -> limit

Goto(t, l) == pc' = [pc EXCEPT ![t] = l]

\* The call returns.
Return(t, result) ==
  /\ Goto(t, "idle")
  /\ hop' = [hop EXCEPT ![t] = NoHop]
  /\ out' = [out EXCEPT ![t] = result]

\* validate_remote_url and validate_resolved_addrs for a resolution: the
\* refusal, or "fine".  A name is judged before it is resolved.
Verdict(u, addrs) ==
  CASE ShapeOf[u] = "malformed" -> "bad_request"
    [] ShapeOf[u] = "metadata_name" -> "forbidden"
    [] ShapeOf[u] = "odd_port" /\ ~insecure -> "forbidden"
    [] OTHER ->
        CASE addrs = {} -> "bad_gateway"
          [] "metadata" \in addrs -> "forbidden"
          [] "private" \in addrs /\ ~insecure -> "forbidden"
          [] OTHER -> "fine"

-----------------------------------------------------------------------------
(* fetch_remote_bytes *)

\* Mutant: the origin cache is asked before the URL is validated.
BeginUnvetted(t, c) ==
  /\ pc[t] = "idle"
  /\ call' = [call EXCEPT ![t] = c]
  /\ Goto(t, CASE c[1] \in Spaces -> "vetted" [] c[1] = "path" -> "path" [] OTHER -> "object")
  /\ hop' = [hop EXCEPT ![t] = Hop(IF c[1] \in Spaces THEN c[2] ELSE None, 0, {}, None)]
  /\ statted' = [statted EXCEPT ![t] = None]
  /\ body' = [body EXCEPT ![t] = None]
  /\ out' = [out EXCEPT ![t] = None]
  /\ vetted' = [vetted EXCEPT ![t] = {}]
  /\ sent' = [sent EXCEPT ![t] = 0]
  /\ moved' = [moved EXCEPT ![t] = FALSE]
  /\ UNCHANGED <<config, cache>>

\* resolve_source_bytes, or fetch_watermark, is called.
Begin(t, c) ==
  /\ pc[t] = "idle"
  /\ call' = [call EXCEPT ![t] = c]
  /\ Goto(t, CASE c[1] \in Spaces -> "vet" [] c[1] = "path" -> "path" [] OTHER -> "object")
  /\ hop' = [hop EXCEPT ![t] = Hop(IF c[1] \in Spaces THEN c[2] ELSE None, 0, {}, None)]
  /\ statted' = [statted EXCEPT ![t] = None]
  /\ body' = [body EXCEPT ![t] = None]
  /\ out' = [out EXCEPT ![t] = None]
  /\ vetted' = [vetted EXCEPT ![t] = {}]
  /\ sent' = [sent EXCEPT ![t] = 0]
  /\ moved' = [moved EXCEPT ![t] = FALSE]
  /\ UNCHANGED <<config, cache>>

\* The URL is validated before the cache is asked; the target is dropped.
Vet(t, addrs) ==
  /\ pc[t] = "vet"
  /\ vetted' = [vetted EXCEPT ![t] = addrs]
  /\ IF Verdict(hop[t].at, addrs) = "fine"
       THEN Goto(t, "vetted") /\ UNCHANGED <<hop, out>>
       ELSE Return(t, Verdict(hop[t].at, addrs))
  /\ UNCHANGED <<config, cache, call, statted, body, sent, moved>>

\* OriginCache::get, its look at the file
Lookup(t) ==
  /\ pc[t] = "vetted"
  /\ OriginCache!Look(t, call[t])
  /\ Goto(t, "lookup")
  /\ UNCHANGED <<config, call, hop, statted, body, out, history>>

\* Mutant: what is cached was within the limit when it was stored.
LookupEndsUnchecked(t) ==
  /\ pc[t] = "lookup"
  /\ OriginCache!Answer(t)
  /\ IF reply'[t] = None
       THEN Goto(t, "prepare") /\ UNCHANGED <<hop, out>>
       ELSE Return(t, "ok")
  /\ UNCHANGED <<config, call, statted, body, history>>

\* OriginCache::get answers; a hit is held to the limit of today.
LookupEnds(t) ==
  /\ pc[t] = "lookup"
  /\ OriginCache!Answer(t)
  /\ IF reply'[t] = None
       THEN Goto(t, "prepare") /\ UNCHANGED <<hop, out>>
       ELSE Return(t, IF reply'[t].size > MaxBytes(t) THEN "too_large" ELSE "ok")
  /\ UNCHANGED <<config, call, statted, body, history>>

\* The top of the redirect loop: every hop is parsed, validated and resolved.
Prepare(t, addrs) ==
  /\ pc[t] = "prepare"
  /\ IF Verdict(hop[t].at, addrs) = "fine"
       THEN /\ Goto(t, "connect") /\ UNCHANGED out
            /\ hop' = [hop EXCEPT ![t] = Hop(hop[t].at, hop[t].index, addrs, None)]
       ELSE Return(t, Verdict(hop[t].at, addrs))
  /\ UNCHANGED <<config, cache, call, statted, body, history>>

\* Mutant: the agent resolves the host itself.
ConnectResolves(t) ==
  /\ pc[t] = "connect"
  /\ \/ /\ \E a \in UNION Resolutions :
             hop' = [hop EXCEPT ![t] = Hop(hop[t].at, hop[t].index, hop[t].pinned, a)]
        /\ Goto(t, "sent") /\ UNCHANGED out
        /\ sent' = [sent EXCEPT ![t] = @ + 1]
     \/ Return(t, "bad_gateway") /\ UNCHANGED sent
  /\ UNCHANGED <<config, cache, call, statted, body, vetted, moved>>

\* The agent connects to one of the addresses PinnedResolver gives it and
\* sends the request, or fails within its connect timeout.
Connect(t) ==
  /\ pc[t] = "connect"
  /\ \/ /\ \E a \in hop[t].pinned :
             hop' = [hop EXCEPT ![t] = Hop(hop[t].at, hop[t].index, hop[t].pinned, a)]
        /\ Goto(t, "sent") /\ UNCHANGED out
        /\ sent' = [sent EXCEPT ![t] = @ + 1]
     \/ Return(t, "bad_gateway") /\ UNCHANGED sent
  /\ UNCHANGED <<config, cache, call, statted, body, vetted, moved>>

\* A redirect, to u or with no Location that can be used (next_redirect_url).
\* The budget is asked first, so the loop never runs past its end.
Redirect(t, u) ==
  /\ pc[t] = "sent"
  /\ IF hop[t].index = MaxRedirects THEN Return(t, "too_many")
     ELSE IF u = None THEN Return(t, "bad_gateway")
     ELSE /\ Goto(t, "prepare") /\ UNCHANGED out
          /\ hop' = [hop EXCEPT ![t] = Hop(u, hop[t].index + 1, {}, None)]
  /\ UNCHANGED <<config, cache, call, statted, body, history>>

\* The transport fails, the status is neither a redirect nor a success, the
\* encoding of the body cannot be decoded, or its read fails part way.
FetchFails(t) ==
  /\ pc[t] = "sent"
  /\ Return(t, "bad_gateway")
  /\ UNCHANGED <<config, cache, call, statted, body, history>>

\* take(max_bytes + 1).read_to_end, of what the request of a hop is answered
Taken(n, max, h) == [size |-> IF n > max THEN max + 1 ELSE n, whole |-> n <= max,
                     url |-> h.at, addr |-> h.peer]

\* Mutant: the reader is cut at the limit and the rest never asked for.
ReadBodyCut(t, n) ==
  /\ pc[t] = "sent"
  /\ body' = [body EXCEPT ![t] = [size |-> IF n > MaxBytes(t) THEN MaxBytes(t) ELSE n,
                                  whole |-> n <= MaxBytes(t),
                                  url |-> hop[t].at, addr |-> hop[t].peer]]
  /\ Goto(t, "put") /\ UNCHANGED <<hop, out>>
  /\ UNCHANGED <<config, cache, call, statted, history>>

\* read_remote_response_body: a success with n bytes.  The Content-Length,
\* where there is one, refuses no more than the count of the bytes does.
ReadBody(t, n) ==
  /\ pc[t] = "sent"
  /\ LET got == Taken(n, MaxBytes(t), hop[t]) IN
       IF got.size > MaxBytes(t)
         THEN Return(t, "too_large") /\ UNCHANGED body
         ELSE /\ body' = [body EXCEPT ![t] = got]
              /\ Goto(t, "put") /\ UNCHANGED <<hop, out>>
  /\ UNCHANGED <<config, cache, call, statted, history>>

\* OriginCache::put under the URL that was asked for; its failure is logged.
Put(t) ==
  /\ pc[t] = "put"
  /\ OriginCache!Put(call[t], body[t]) \/ UNCHANGED cache
  /\ Return(t, "ok")
  /\ UNCHANGED <<config, call, statted, body, history>>

-----------------------------------------------------------------------------
(* The other sources *)

\* resolve_storage_path and the metadata of the file, n bytes
PathStat(t, n) ==
  /\ pc[t] = "path" /\ Name(t) # BadName
  /\ statted' = [statted EXCEPT ![t] = n]
  /\ IF n > limit THEN Return(t, "too_large")
     ELSE Goto(t, "read") /\ UNCHANGED <<hop, out>>
  /\ UNCHANGED <<config, cache, call, body, history>>

\* fs::read: the file as it is now, which need not be as it was looked at
PathRead(t, n) ==
  /\ pc[t] = "read"
  /\ moved' = [moved EXCEPT ![t] = n # statted[t]]
  /\ body' = [body EXCEPT ![t] = [size |-> n, whole |-> TRUE, url |-> None, addr |-> None]]
  /\ Return(t, "ok")
  /\ UNCHANGED <<config, cache, call, statted, vetted, sent>>

\* A path refused as written, or what errors of the file system become
PathFails(t) ==
  /\ pc[t] \in {"path", "read"}
  /\ \E r \in IF Name(t) = BadName THEN {"bad_request"}
              ELSE {"not_found", "bad_request", "internal_error"} : Return(t, r)
  /\ UNCHANGED <<config, cache, call, statted, body, history>>

\* An object of n bytes, from S3, GCS or Azure
ObjectRead(t, n) ==
  /\ pc[t] = "object" /\ Name(t) # BadName
  /\ IF n > MaxBytes(t) THEN Return(t, "too_large") /\ UNCHANGED body
     ELSE /\ body' = [body EXCEPT ![t] = Taken(n, MaxBytes(t), NoHop)]
          /\ Return(t, "ok")
  /\ UNCHANGED <<config, cache, call, statted, history>>

\* A key that is refused, or what the store's errors and the timeout become
ObjectFails(t) ==
  /\ pc[t] = "object"
  /\ \E r \in IF Name(t) = BadName THEN {"bad_request"}
              ELSE {"not_found", "forbidden", "bad_gateway"} : Return(t, r)
  /\ UNCHANGED <<config, cache, call, statted, body, history>>

-----------------------------------------------------------------------------
(* The world around the process *)

\* Entries expire and are evicted.
Expire(k) ==
  /\ OriginCache!Forget(k)
  /\ UNCHANGED <<config, pc, call, hop, statted, body, out, history>>

\* The process stops and starts again, perhaps with other settings.
Restart ==
  /\ insecure' \in BOOLEAN /\ limit' \in SourceLimits
  /\ OriginCache!Restart
  /\ pc' = [t \in Threads |-> "idle"]
  /\ call' = [t \in Threads |-> None]
  /\ hop' = [t \in Threads |-> NoHop]
  /\ statted' = [t \in Threads |-> None]
  /\ body' = [t \in Threads |-> None]
  /\ out' = [t \in Threads |-> None]
  /\ vetted' = [t \in Threads |-> {}]
  /\ sent' = [t \in Threads |-> 0]
  /\ moved' = [t \in Threads |-> FALSE]

Fetch(t) ==
  \/ \E addrs \in Resolutions : Vet(t, addrs) \/ Prepare(t, addrs)
  \/ Lookup(t) \/ LookupEnds(t) \/ Connect(t)
  \/ \E u \in Urls \cup {None} : Redirect(t, u)
  \/ \E n \in Sizes : ReadBody(t, n)
  \/ FetchFails(t) \/ Put(t)

ReadOther(t) ==
  \/ \E n \in Sizes : PathStat(t, n) \/ PathRead(t, n) \/ ObjectRead(t, n)
  \/ PathFails(t) \/ ObjectFails(t)

Next ==
  \/ \E t \in Threads, c \in Asked : Begin(t, c)
  \/ \E t \in Threads : Fetch(t) \/ ReadOther(t)
  \/ \E k \in Spaces \X Urls : Expire(k)
  \/ Restart

Spec == Init /\ [][Next]_vars

-----------------------------------------------------------------------------
(* Properties *)

\* Types of the state.
TypeOK ==
  /\ insecure \in BOOLEAN /\ limit \in SourceLimits
  /\ store \in [Spaces \X Urls -> Bodies \cup {None}]
  /\ seen \in [Threads -> Bodies \cup {None}] /\ reply \in [Threads -> Bodies \cup {None}]
  /\ pc \in [Threads -> {"idle", "vet", "vetted", "lookup", "prepare", "connect", "sent",
                         "put", "path", "read", "object"}]
  /\ call \in [Threads -> Calls \cup {None}]
  /\ hop \in [Threads -> Hops] /\ vetted \in [Threads -> SUBSET Addrs]
  /\ statted \in [Threads -> Sizes \cup {None}]
  /\ body \in [Threads -> Bodies \cup {None}]
  /\ out \in [Threads -> Outcomes \cup {None}]
  /\ sent \in [Threads -> Nat] /\ moved \in [Threads -> BOOLEAN]

\* The bytes a call answered with: what it read, or what its lookup found.
Bytes(t) == IF body[t] # None THEN body[t] ELSE reply[t]

\* An address the settings of the running process allow a URL to reach.
Allowed(u, a) ==
  /\ ShapeOf[u] \in (IF insecure THEN {"web", "odd_port"} ELSE {"web"})
  /\ a \in (IF insecure THEN {"public", "private"} ELSE {"public"})

\* Whatever the name service answers between the validation of a hop and its
\* connection (build_remote_agent: "cannot race to a different DNS answer
\* after validation"), and wherever redirects lead, a request is only ever
\* sent for a URL and to an address that the settings in force allow.
SentWhereAllowed ==
  \A t \in Threads : pc[t] \in {"sent", "put"} => Allowed(hop[t].at, hop[t].peer)

\* Settings are tightened by a restart, and what the origin cache kept under
\* the old ones survives it.  A call that succeeds had its own URL validated
\* under the settings in force (fetch_remote_bytes: validation "*before*
\* checking the origin cache"), and the bytes it answers with came from a URL
\* and an address that these settings allow.  Two kinds of cached bytes are
\* excepted, because an entry is kept under the URL that was asked for and does
\* not say where its bytes came from: those a redirect led to, and those of a
\* name that has other addresses now.
HitUnderPolicy ==
  \A t \in Threads : out[t] = "ok" /\ Kind(t) \in Spaces =>
    /\ vetted[t] # {} /\ \A a \in vetted[t] : Allowed(Name(t), a)
    /\ \/ Allowed(Bytes(t).url, Bytes(t).addr)
       \/ body[t] = None /\ Bytes(t).url # Name(t)
       \/ body[t] = None /\ Bytes(t).addr \notin vetted[t]

\* What remote.rs says of this without the exceptions: "tightening
\* restrictions invalidates previously cached responses" (line 18) and "cached
\* responses from a permissive configuration cannot be served after tightening
\* restrictions" (line 170).  It does not hold, see the README.
TighteningInvalidates ==
  \A t \in Threads : out[t] = "ok" /\ Kind(t) \in Spaces =>
    Allowed(Bytes(t).url, Bytes(t).addr)

\* No more bytes than the running process allows leave resolve_source_bytes or
\* the watermark fetch, also from a cache entry written under a larger limit;
\* the one exception is a file replaced between its metadata and its read.
WithinLimit ==
  \A t \in Threads : out[t] = "ok" /\ Bytes(t).size > MaxBytes(t) =>
    Kind(t) = "path" /\ moved[t]

\* Nothing is answered, and nothing is kept in the origin cache, but the whole
\* body of a success: a transfer cut at the limit is neither.
WholeBodies ==
  /\ \A k \in Spaces \X Urls : store[k] # None => store[k].whole
  /\ \A t \in Threads : out[t] = "ok" => Bytes(t) # None /\ Bytes(t).whole

\* A chain of MaxRedirects redirects is followed to its end and one more is
\* not: the refusal comes exactly after MaxRedirects + 1 requests.
RedirectBudget ==
  \A t \in Threads :
    /\ sent[t] <= MaxRedirects + 1
    /\ out[t] = "too_many" => sent[t] = MaxRedirects + 1
=============================================================================
