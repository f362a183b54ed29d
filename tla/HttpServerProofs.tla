-------------------------- MODULE HttpServerProofs --------------------------
(***************************************************************************)
(* Theorems about HttpServer, for any configurations, requests, workers    *)
(* and images: who may make the server work and that a signed URL does,    *)
(* whom the limiter charges, that an upload is read as it was sent and the *)
(* Accept header honoured, and that the metrics of interleaved workers are *)
(* exact.                                                                  *)
(***************************************************************************)
EXTENDS HttpServer, FiniteSetTheorems, SequenceTheorems, WellFoundedInduction, TLAPS

-----------------------------------------------------------------------------
(* The exchange *)

\* What one request leaves on show: the answer, which the early refusals or
\* the handlers give, and whom the limiter was asked about.
Given(input, now, allowed) ==
  IF Early(input.request, allowed).status # Accepted
  THEN Refusal(Early(input.request, allowed).status)
  ELSE RouteRequest(input.request, now)

LEMMA Served ==
  ASSUME NEW w \in Workers, Serve(w)
  PROVE  \E input \in Inputs(config), now \in Clock, allowed \in BOOLEAN :
           /\ exchange'.input = input /\ exchange'.now = now
           /\ exchange'.answer = Given(input, now, allowed)
           /\ exchange'.charged \in {{}, {ResolveClientIp(input.request, config.trusted)}}
<1>1. PICK input \in Inputs(config), now \in Clock, allowed \in BOOLEAN :
        exchange' = Exchange(input, now, Given(input, now, allowed))
  BY DEF Serve, Given
<1>2. ASSUME NEW a, exchange' = Exchange(input, now, a)
      PROVE  /\ exchange'.input = input /\ exchange'.now = now /\ exchange'.answer = a
             /\ exchange'.charged \in {{}, {ResolveClientIp(input.request, config.trusted)}}
  BY <1>2 DEF Exchange
<1>. QED  BY <1>1, <1>2

-----------------------------------------------------------------------------
(* Whom the limiter charges *)

\* Where a search from the right, or from the left, ends.
LEMMA Last ==
  ASSUME NEW S \in SUBSET Int, NEW m \in S, \A j \in S : j <= m
  PROVE  (CHOOSE i \in S : \A j \in S : i >= j) = m
<1>. DEFINE x == CHOOSE i \in S : \A j \in S : i >= j
<1>1. \A j \in S : m >= j
  OBVIOUS
<1>2. x \in S /\ x >= m
  BY <1>1
<1>. HIDE DEF x
<1>3. x = m
  BY <1>2
<1>. QED  BY <1>3 DEF x

LEMMA First ==
  ASSUME NEW S \in SUBSET Int, NEW m \in S, \A j \in S : m <= j
  PROVE  (CHOOSE i \in S : \A j \in S : i <= j) = m
<1>. DEFINE x == CHOOSE i \in S : \A j \in S : i <= j
<1>1. x \in S /\ x <= m
  OBVIOUS
<1>. HIDE DEF x
<1>2. x = m
  BY <1>1
<1>. QED  BY <1>2 DEF x

\* A set of naturals that is not empty has a least element: the form of
\* induction used below is to look at the least counterexample.
LEMMA Least ==
  ASSUME NEW T \in SUBSET Nat, T # {}
  PROVE  \E n \in T : \A m \in T : n <= m
<1>. DEFINE R == OpToRel(<, Nat)
<1>1. IsWellFoundedOn(R, Nat)
  BY NatLessThanWellFounded
<1>2. R = {ss \in Nat \X Nat : ss[1] < ss[2]}
  BY DEF OpToRel
<1>. HIDE DEF R
<1>3. PICK x \in T : \A y \in T : ~ (<<y, x>> \in R)
  BY <1>1, WFMin
<1>4. \A y \in T : <<y, x>> \in R <=> y < x
  BY <1>2
<1>5. \A y \in T : y \in Nat
  OBVIOUS
<1>6. \A y \in T : ~(y < x)
  BY <1>3, <1>4
<1>. QED  BY <1>5, <1>6

LEMMA ClientFound ==
  ASSUME NEW c \in Configs, NEW input \in Inputs(c),
         NEW i \in DOMAIN CameFrom(input), CameFrom(input)[i] \notin c.trusted
  PROVE  \E k \in DOMAIN CameFrom(input) :
           /\ CameFrom(input)[k] \notin c.trusted
           /\ \A j \in DOMAIN CameFrom(input) : CameFrom(input)[j] \notin c.trusted => k <= j
           /\ ResolveClientIp(input.request, c.trusted) = CameFrom(input)[k]
<1>. DEFINE path == CameFrom(input)
            outside == {j \in DOMAIN path : path[j] \notin c.trusted}
            request == input.request
            n == Len(request.forwarded)
            candidates == {j \in DOMAIN request.forwarded :
                             request.forwarded[j] \notin c.trusted \cup {"junk"}}
<1>1. /\ request.peer = path[1]
      /\ \A j \in 2..Len(path) : (\A l \in 1..(j - 1) : path[l] \in c.trusted) =>
           /\ j - 1 <= n /\ request.forwarded[n - j + 2] = path[j]
           /\ path[j] # "junk"
  BY InputAssumption DEF Appended
<1>2. /\ n \in Nat /\ DOMAIN request.forwarded = 1..n
      /\ Len(path) \in Nat /\ DOMAIN path = 1..Len(path)
  <2>1. input.hops \in Seq(STRING) /\ request.forwarded \in Seq(STRING)
    BY InputAssumption
  <2>. QED  BY <2>1 DEF CameFrom
<1>. HIDE DEF path, n, request
<1>3. PICK k \in outside : \A j \in outside : k <= j
  <2>1. outside \in SUBSET Nat /\ outside # {}
    BY <1>2 DEF path
  <2>. QED  BY <2>1, Least
<1>4. k \in 1..Len(path) /\ path[k] \notin c.trusted /\ \A l \in 1..(k - 1) : path[l] \in c.trusted
  BY <1>2, <1>3
<1>5. CASE k = 1
  BY <1>1, <1>3, <1>4, <1>5 DEF ResolveClientIp, path, request
<1>6. CASE k # 1
  <2>. DEFINE m == n - k + 2
  <2>1. request.peer \in c.trusted
    BY <1>1, <1>4, <1>6
  <2>2. /\ k - 1 <= n /\ request.forwarded[m] = path[k] /\ path[k] # "junk"
    BY <1>1, <1>4, <1>6
  <2>3. m \in candidates
    BY <1>2, <1>4, <1>6, <2>2
  <2>4. ASSUME NEW j \in candidates PROVE j <= m
    <3>. SUFFICES ASSUME j > m PROVE FALSE
      BY <1>2, <1>4
    <3>. DEFINE l == n - j + 2
    <3>1. j \in 1..n
      BY <1>2
    <3>2. l \in 2..Len(path) /\ l < k /\ l \in 1..(k - 1) /\ n - l + 2 = j
      BY <1>2, <1>4, <3>1
    <3>3. \A q \in 1..(l - 1) : path[q] \in c.trusted
      BY <1>4, <3>2
    <3>4. request.forwarded[n - l + 2] = path[l]
      BY <1>1, <3>2, <3>3
    <3>. QED  BY <1>4, <3>2, <3>4
  <2>5. candidates \in SUBSET Int
    BY <1>2
  <2>. HIDE DEF m, candidates
  <2>6. (CHOOSE x \in candidates : \A y \in candidates : x >= y) = m
    BY <2>3, <2>4, <2>5, Last
  <2>7. ResolveClientIp(request, c.trusted) =
          request.forwarded[CHOOSE x \in candidates : \A y \in candidates : x >= y]
    BY <2>1, <2>3 DEF ResolveClientIp, candidates
  <2>. QED  BY <1>3, <1>4, <2>2, <2>6, <2>7 DEF path, request
<1>. QED  BY <1>5, <1>6

\* The limiter charges who really connected: the nearest address on the
\* request's path that is not a trusted proxy, whatever the client wrote into
\* the forwarding headers.
THEOREM ClientsAreCharged == Spec => []ChargedToClient
<1>1. Init => config \in Configs /\ ChargedToClient
  BY DEF Init, NoExchange, ChargedToClient
<1>2. ASSUME config \in Configs, ChargedToClient, [Next]_vars
      PROVE  (config \in Configs /\ ChargedToClient)'
  <2>1. ASSUME NEW w \in Workers, Serve(w) PROVE ChargedToClient' /\ config' = config
    <3>0. config' = config
      BY <2>1 DEF Serve
    <3>. DEFINE path == CameFrom(exchange'.input)
                outside == {i \in DOMAIN path : path[i] \notin config.trusted}
    <3>. SUFFICES ASSUME exchange'.charged # {}, outside # {}
                  PROVE  exchange'.charged = {path[CHOOSE i \in outside : \A j \in outside : i <= j]}
      BY <3>0 DEF ChargedToClient
    <3>1. PICK input \in Inputs(config), now \in Clock, allowed \in BOOLEAN :
            /\ exchange'.input = input
            /\ exchange'.charged = {ResolveClientIp(input.request, config.trusted)}
      BY <2>1, Served
    <3>2. path = CameFrom(input)
      BY <3>1
    <3>3. PICK k \in DOMAIN path :
            /\ path[k] \notin config.trusted
            /\ \A j \in DOMAIN path : path[j] \notin config.trusted => k <= j
            /\ ResolveClientIp(input.request, config.trusted) = path[k]
      BY <1>2, <3>2, ClientFound
    <3>4. DOMAIN path \subseteq Int
      <4>1. input.hops \in Seq(STRING)
        BY <1>2, InputAssumption
      <4>. QED  BY <3>2, <4>1 DEF CameFrom
    <3>5. k \in outside /\ outside \in SUBSET Int /\ \A j \in outside : k <= j
      BY <3>3, <3>4
    <3>. HIDE DEF path, outside
    <3>6. (CHOOSE i \in outside : \A j \in outside : i <= j) = k
      BY <3>5, First
    <3>. QED  BY <3>1, <3>3, <3>6
  <2>2. ASSUME NEW w \in Workers, RefuseHead(w) \/ RecordStep(w) PROVE ChargedToClient' /\ config' = config
    BY <2>2 DEF RefuseHead, RecordStep, NoExchange, ChargedToClient
  <2>3. CASE UNCHANGED vars
    BY <1>2, <2>3 DEF vars, ChargedToClient
  <2>. QED  BY <1>2, <2>1, <2>2, <2>3 DEF Next
<1>. QED  BY <1>1, <1>2, PTL DEF Spec

-----------------------------------------------------------------------------
(* Who may make the server work *)

LEMMA AnswerWork == \A status, kind, work : Answer(status, kind, work).work = work
BY DEF Answer

LEMMA ProblemWork == \A status : ~Problem(status).work.done /\ ~Refusal(status).work.done
<1>1. \A status : Problem(status).work = NoWork
  BY DEF Problem, Answer
<1>2. \A status : Refusal(status).work = NoWork
  BY DEF Refusal, Problem, Answer
<1>. QED  BY <1>1, <1>2 DEF NoWork

\* An image's answer carries the work it was asked for, whatever it turns into.
LEMMA ImageWork ==
  ASSUME NEW request, NEW policy, NEW work
  PROVE  ImageAnswer(request, policy, work).work = work
<1>1. ASSUME NEW image, NEW format PROVE Represented(request, policy, work, image, format).work = work
  <2>1. ASSUME NEW a, NEW v, NEW f, NEW status, NEW kind, a = Answer(status, kind, work)
        PROVE  [a EXCEPT !.vary = v, !.format = f].work = work
    BY <2>1 DEF Answer
  <2>. QED  BY <2>1, AnswerWork DEF Represented
<1>2. ASSUME NEW image, NEW choice PROVE Negotiated(request, policy, work, image, choice).work = work
  <2>1. [Answer(406, "problem", work) EXCEPT !.vary = {"Accept"}].work = work
    BY DEF Answer
  <2>. QED  BY <1>1, <2>1 DEF Negotiated
<1>. QED  BY <1>2, AnswerWork DEF ImageAnswer

\* Leave to do the work of an answer.
Leave(request, now, work) ==
  \/ work.by = "token" /\ AuthorizeRequest(request, config) = Accepted
  \/ /\ work.by = "signature" /\ ~request.repeated
     /\ AuthorizeSigned(request, request.query, config, now) = Accepted

\* An answer with work is an image's.
Imaged(request, answer) == \E policy : answer = ImageAnswer(request, policy, answer.work)

LEMMA PublicLeave ==
  ASSUME NEW request, NEW kind, NEW now, HandlePublicGet(request, kind, now).work.done
  PROVE  /\ Leave(request, now, HandlePublicGet(request, kind, now).work)
         /\ Imaged(request, HandlePublicGet(request, kind, now))
<1>. DEFINE parsed == ParsePublicGet(request.query, kind, config.presets)
            done == Work("signature", parsed.source, parsed.options, parsed.watermark)
<1>1. /\ ~request.repeated
      /\ AuthorizeSigned(request, request.query, config, now) = Accepted
      /\ HandlePublicGet(request, kind, now) = PublicAnswer(request, parsed)
  BY ProblemWork DEF HandlePublicGet
<1>. HIDE DEF parsed
<1>2. PublicAnswer(request, parsed) = ImageAnswer(request, "public", done)
  BY <1>1, ProblemWork DEF PublicAnswer
<1>3. done.by = "signature"
  BY DEF Work
<1>. HIDE DEF done
<1>. QED  BY <1>1, <1>2, <1>3, ImageWork DEF Leave, Imaged

LEMMA TransformLeave ==
  ASSUME NEW request, NEW now, HandleTransform(request).work.done
  PROVE  /\ Leave(request, now, HandleTransform(request).work)
         /\ Imaged(request, HandleTransform(request))
<1>1. AuthorizeRequest(request, config) = Accepted
  BY ProblemWork DEF HandleTransform
<1>2. PICK document, resolved : HandleTransform(request) = TransformAnswer(request, document, resolved)
  BY ProblemWork DEF HandleTransform
<1>. DEFINE done == Work("token", document.source, resolved.options, DrawnWatermark(document.watermark))
<1>3. TransformAnswer(request, document, resolved) = ImageAnswer(request, "private", done)
  BY <1>2, ProblemWork DEF TransformAnswer
<1>4. done.by = "token"
  BY DEF Work
<1>. HIDE DEF done
<1>. QED  BY <1>1, <1>2, <1>3, <1>4, ImageWork DEF Leave, Imaged

LEMMA UploadLeave ==
  ASSUME NEW request, NEW now, HandleUpload(request).work.done
  PROVE  /\ Leave(request, now, HandleUpload(request).work)
         /\ Imaged(request, HandleUpload(request))
<1>1. AuthorizeRequest(request, config) = Accepted
  BY ProblemWork DEF HandleUpload
<1>2. PICK upload : HandleUpload(request) = UploadAnswer(request, upload)
  BY ProblemWork DEF HandleUpload
<1>3. PICK source : UploadAnswer(request, upload) =
                      ImageAnswer(request, "private", Work("token", source, upload.options, upload.watermark))
  BY <1>2, ProblemWork DEF UploadAnswer
<1>. DEFINE done == Work("token", source, upload.options, upload.watermark)
<1>4. done.by = "token"
  BY DEF Work
<1>. HIDE DEF done
<1>5. UploadAnswer(request, upload) = ImageAnswer(request, "private", done)
  BY <1>3 DEF done
<1>. QED  BY <1>1, <1>2, <1>4, <1>5, ImageWork DEF Leave, Imaged

LEMMA RouteLeave ==
  ASSUME NEW request, NEW now, RouteRequest(request, now).work.done
  PROVE  /\ Leave(request, now, RouteRequest(request, now).work)
         /\ Imaged(request, RouteRequest(request, now))
<1>1. ~HandleMetrics(request).work.done
  BY ProblemWork, AnswerWork DEF HandleMetrics, NoWork
<1>2. \A status, kind : ~Answer(status, kind, NoWork).work.done
  BY AnswerWork DEF NoWork
<1>3. RouteRequest(request, now) = Handle(request, now)
  BY <1>2, ProblemWork DEF RouteRequest
<1>4. Handle(request, now) \in {HandlePublicGet(request, "path", now),
        HandlePublicGet(request, "url", now), HandleTransform(request), HandleUpload(request)}
  BY <1>1, <1>2, <1>3 DEF Handle
<1>. QED  BY <1>3, <1>4, PublicLeave, TransformLeave, UploadLeave

\* Reading and writing queries.
LEMMA OverDomain == \A f, g : DOMAIN Over(f, g) = DOMAIN f \cup DOMAIN g
BY DEF Over

LEMMA OverFirst == ASSUME NEW f, NEW g, NEW n \in DOMAIN f PROVE Over(f, g)[n] = f[n]
BY DEF Over

LEMMA OverSecond == ASSUME NEW f, NEW g, NEW n \in DOMAIN g \ DOMAIN f PROVE Over(f, g)[n] = g[n]
BY DEF Over

LEMMA OneDomain == \A name, value : DOMAIN One(name, value) = {name}
BY DEF One

LEMMA OneIs == \A name, value : One(name, value)[name] = value
BY DEF One

AuthNames == {"keyId", "expires", "signature"}

\* The names each part of a query may write.
SourceNames == {"path", "url", "version"}
MarkNames == {"watermarkUrl"} \cup WatermarkNames

LEMMA QueryPartNames ==
  ASSUME NEW call, NEW options, call.source.kind \in {"path", "url"}
  PROVE  /\ DOMAIN SourceQuery(call.source) \subseteq SourceNames
         /\ DOMAIN PresetQuery(call.preset) \subseteq {"preset"}
         /\ DOMAIN TransformQuery(options) \subseteq OptionNames
         /\ DOMAIN WatermarkQuery(call.watermark) \subseteq MarkNames
<1>0. DOMAIN <<>> = {}
  OBVIOUS
<1>1. DOMAIN SourceQuery(call.source) \subseteq {"path", "url", "version"}
  <2>. DEFINE v == IF call.source.version = Absent THEN <<>> ELSE One("version", call.source.version)
              k == One(call.source.kind, call.source.reference)
  <2>1. DOMAIN v \subseteq {"version"}
    <3>1. DOMAIN One("version", call.source.version) = {"version"}
      BY OneDomain
    <3>. QED  BY <1>0, <3>1
  <2>3. DOMAIN k \subseteq {"path", "url"}
    <3>1. DOMAIN k = {call.source.kind}
      BY OneDomain
    <3>. QED  BY <3>1
  <2>2. SourceQuery(call.source) = Over(k, v)
    BY DEF SourceQuery
  <2>. HIDE DEF v, k
  <2>4. DOMAIN Over(k, v) = DOMAIN k \cup DOMAIN v
    BY OverDomain
  <2>. QED  BY <2>1, <2>2, <2>3, <2>4
<1>2. DOMAIN PresetQuery(call.preset) \subseteq {"preset"}
  BY <1>0, OneDomain DEF PresetQuery
<1>3. DOMAIN TransformQuery(options) \subseteq OptionNames
  BY DEF TransformQuery
<1>5. DOMAIN WatermarkQuery(call.watermark) \subseteq {"watermarkUrl"} \cup WatermarkNames
  <2>. DEFINE w == call.watermark
              u == One("watermarkUrl", w.url)
              p == IF w.position = Absent THEN <<>> ELSE One("watermarkPosition", w.position)
              o == IF w.opacity = None THEN <<>> ELSE One("watermarkOpacity", w.opacity)
              m == IF w.margin = None THEN <<>> ELSE One("watermarkMargin", w.margin)
  <2>1. /\ DOMAIN u = {"watermarkUrl"} /\ DOMAIN p \subseteq WatermarkNames
        /\ DOMAIN o \subseteq WatermarkNames /\ DOMAIN m \subseteq WatermarkNames
    <3>1. \A name, value : DOMAIN One(name, value) = {name}
      BY OneDomain
    <3>2. DOMAIN u = {"watermarkUrl"}
      BY OneDomain
    <3>3. /\ DOMAIN p \subseteq {"watermarkPosition"} /\ DOMAIN o \subseteq {"watermarkOpacity"}
          /\ DOMAIN m \subseteq {"watermarkMargin"}
      <4>1. DOMAIN p \subseteq {"watermarkPosition"}
        <5>1. DOMAIN One("watermarkPosition", w.position) = {"watermarkPosition"}
          BY <3>1
        <5>. QED  BY <1>0, <5>1
      <4>2. DOMAIN o \subseteq {"watermarkOpacity"}
        <5>1. DOMAIN One("watermarkOpacity", w.opacity) = {"watermarkOpacity"}
          BY <3>1
        <5>. QED  BY <1>0, <5>1
      <4>3. DOMAIN m \subseteq {"watermarkMargin"}
        <5>1. DOMAIN One("watermarkMargin", w.margin) = {"watermarkMargin"}
          BY <3>1
        <5>. QED  BY <1>0, <5>1
      <4>. QED  BY <4>1, <4>2, <4>3
    <3>. QED  BY <3>2, <3>3 DEF WatermarkNames
  <2>2. WatermarkQuery(w) = IF w.url = Absent THEN <<>> ELSE Over(u, Over(p, Over(o, m)))
    BY DEF WatermarkQuery
  <2>. HIDE DEF u, p, o, m
  <2>3. DOMAIN Over(u, Over(p, Over(o, m))) = DOMAIN u \cup DOMAIN p \cup DOMAIN o \cup DOMAIN m
    <3>1. DOMAIN Over(o, m) = DOMAIN o \cup DOMAIN m
      BY OverDomain
    <3>2. DOMAIN Over(p, Over(o, m)) = DOMAIN p \cup DOMAIN Over(o, m)
      BY OverDomain
    <3>3. DOMAIN Over(u, Over(p, Over(o, m))) = DOMAIN u \cup DOMAIN Over(p, Over(o, m))
      BY OverDomain
    <3>. QED  BY <3>1, <3>2, <3>3
  <2>. QED  BY <1>0, <2>1, <2>2, <2>3
<1>. QED  BY <1>1, <1>2, <1>3, <1>5 DEF SourceNames, MarkNames

\* No name is written by two parts, nor by the signer.
LEMMA NamesApart ==
  /\ SourceNames \cap ({"preset"} \cup OptionNames \cup MarkNames \cup AuthNames) = {}
  /\ {"preset"} \cap (OptionNames \cup MarkNames \cup AuthNames) = {}
  /\ OptionNames \cap (MarkNames \cup AuthNames) = {}
  /\ MarkNames \cap AuthNames = {}
<1>1. OptionNames = {"width", "height", "fit", "position", "format", "quality", "optimize", "target",
        "background", "rotate", "autoOrient", "strip", "preserveExif", "blur", "sharpen", "grayscale",
        "withoutEnlargement", "crop"}
  BY DEF OptionNames, DefaultOptions
<1>2. MarkNames = {"watermarkUrl", "watermarkPosition", "watermarkOpacity", "watermarkMargin"}
  BY DEF MarkNames, WatermarkNames
<1>3. /\ SourceNames \cap ({"preset"} \cup OptionNames) = {}
      /\ SourceNames \cap (MarkNames \cup AuthNames) = {}
  BY <1>1, <1>2 DEF SourceNames, AuthNames
<1>4. {"preset"} \cap (OptionNames \cup MarkNames \cup AuthNames) = {}
  BY <1>1, <1>2 DEF AuthNames
<1>5. OptionNames \cap MarkNames = {} /\ OptionNames \cap AuthNames = {}
  BY <1>1, <1>2 DEF AuthNames
<1>6. MarkNames \cap AuthNames = {}
  BY <1>2 DEF AuthNames
<1>. QED  BY ONLY <1>3, <1>4, <1>5, <1>6

\* None of the other parts of a query writes a name the verification reads.
LEMMA PartsApart ==
  ASSUME NEW call, NEW options, call.source.kind \in {"path", "url"}
  PROVE  /\ DOMAIN SourceQuery(call.source) \cap AuthNames = {}
         /\ DOMAIN PresetQuery(call.preset) \cap AuthNames = {}
         /\ DOMAIN TransformQuery(options) \cap AuthNames = {}
         /\ DOMAIN WatermarkQuery(call.watermark) \cap AuthNames = {}
BY QueryPartNames, NamesApart

LEMMA SignedQueryIs ==
  ASSUME NEW call, NEW options, call.source.kind \in {"path", "url"}
  PROVE  /\ {"keyId", "expires"} \subseteq DOMAIN SignedQuery(call, options)
         /\ "signature" \notin DOMAIN SignedQuery(call, options)
         /\ SignedQuery(call, options)["keyId"] = call.keyId
         /\ SignedQuery(call, options)["expires"] = call.expires
         /\ SignedQuery(call, options) =
              [n \in DOMAIN SignedQuery(call, options) |-> SignedQuery(call, options)[n]]
<1>. DEFINE q5 == Over(One("keyId", call.keyId), One("expires", call.expires))
            q4 == Over(WatermarkQuery(call.watermark), q5)
            q3 == Over(TransformQuery(options), q4)
            q2 == Over(PresetQuery(call.preset), q3)
            q1 == Over(SourceQuery(call.source), q2)
            Ends(q) == /\ DOMAIN q \cap AuthNames = {"keyId", "expires"}
                       /\ q["keyId"] = call.keyId /\ q["expires"] = call.expires
<1>1. Ends(q5)
  <2>. DEFINE f == One("keyId", call.keyId)
              g == One("expires", call.expires)
  <2>1. DOMAIN f = {"keyId"} /\ DOMAIN g = {"expires"} /\ f["keyId"] = call.keyId /\ g["expires"] = call.expires
    BY OneDomain, OneIs
  <2>. HIDE DEF f, g
  <2>2. /\ DOMAIN Over(f, g) = {"keyId", "expires"}
        /\ Over(f, g)["keyId"] = call.keyId /\ Over(f, g)["expires"] = call.expires
    <3>1. DOMAIN Over(f, g) = DOMAIN f \cup DOMAIN g
      BY OverDomain
    <3>2. "keyId" \in DOMAIN f /\ "expires" \in DOMAIN g \ DOMAIN f
      BY <2>1
    <3>. QED  BY <2>1, <3>1, <3>2, OverFirst, OverSecond
  <2>. QED  BY <2>2 DEF AuthNames, f, g
<1>2. ASSUME NEW f, NEW g, DOMAIN f \cap AuthNames = {}, Ends(g) PROVE Ends(Over(f, g))
  <2>1. {"keyId", "expires"} \subseteq DOMAIN g \ DOMAIN f
    BY <1>2 DEF AuthNames
  <2>2. Over(f, g)["keyId"] = g["keyId"] /\ Over(f, g)["expires"] = g["expires"]
    BY <2>1, OverSecond
  <2>3. DOMAIN Over(f, g) \cap AuthNames = {"keyId", "expires"}
    <3>1. DOMAIN Over(f, g) = DOMAIN f \cup DOMAIN g
      BY OverDomain
    <3>. QED  BY <1>2, <3>1
  <2>. QED  BY <1>2, <2>2, <2>3
<1>. HIDE DEF q5, Ends
<1>3. Ends(q4)
  BY <1>1, <1>2, PartsApart
<1>. HIDE DEF q4
<1>4. Ends(q3)
  BY <1>2, <1>3, PartsApart
<1>. HIDE DEF q3
<1>5. Ends(q2)
  BY <1>2, <1>4, PartsApart
<1>. HIDE DEF q2
<1>6. Ends(q1)
  BY <1>2, <1>5, PartsApart
<1>7. SignedQuery(call, options) = q1
  BY DEF SignedQuery, q2, q3, q4, q5
<1>8. q1 = [n \in DOMAIN q1 |-> q1[n]]
  BY DEF Over
<1>. HIDE DEF q1
<1>. QED  BY <1>6, <1>7, <1>8 DEF Ends, AuthNames

\* What a verified signature says of the query: it is the one that was signed.
LEMMA VerifiedQuery ==
  ASSUME NEW q, NEW signed, NEW mac, QueryRead(q), "signature" \in DOMAIN q,
         q["signature"].mac = mac, q["signature"].case = "lower",
         signed = [n \in DOMAIN signed |-> signed[n]], "signature" \notin DOMAIN signed,
         Without(q, {"signature"}) = Without(signed, {"signature"})
  PROVE  /\ q = Over(signed, One("signature", [mac |-> mac, case |-> "lower"]))
         /\ \A n \in DOMAIN signed : n \in DOMAIN q => q[n] = signed[n]
<1>. DEFINE s == One("signature", [mac |-> mac, case |-> "lower"])
            r == Over(signed, s)
<1>1. /\ DOMAIN Without(q, {"signature"}) = DOMAIN q \ {"signature"}
      /\ DOMAIN Without(signed, {"signature"}) = DOMAIN signed \ {"signature"}
  BY DEF Without
<1>2. DOMAIN q = DOMAIN signed \cup {"signature"}
  BY <1>1
<1>3. \A n \in DOMAIN signed : Without(q, {"signature"})[n] = q[n] /\ Without(signed, {"signature"})[n] = signed[n]
  BY <1>2 DEF Without
<1>4. \A n \in DOMAIN signed : q[n] = signed[n]
  BY <1>3
<1>5. q["signature"] = [mac |-> mac, case |-> "lower"]
  BY DEF QueryRead
<1>6. DOMAIN s = {"signature"} /\ s["signature"] = q["signature"]
  BY <1>5, OneDomain, OneIs
<1>7. r = [n \in DOMAIN r |-> r[n]]
  BY DEF Over
<1>. HIDE DEF s
<1>8. DOMAIN r = DOMAIN signed \cup {"signature"}
  <2>1. DOMAIN Over(signed, s) = DOMAIN signed \cup DOMAIN s
    BY OverDomain
  <2>. QED  BY <1>6, <2>1
<1>9. \A n \in DOMAIN signed : r[n] = signed[n]
  BY OverFirst
<1>10. "signature" \in DOMAIN s \ DOMAIN signed
  BY <1>6
<1>11. r["signature"] = q["signature"]
  BY <1>6, <1>10, OverSecond
<1>. HIDE DEF r
<1>12. DOMAIN q = DOMAIN r /\ \A n \in DOMAIN q : q[n] = r[n]
  BY <1>2, <1>4, <1>8, <1>9, <1>11
<1>13. q = [n \in DOMAIN q |-> q[n]]
  BY DEF QueryRead
<1>14. q = r
  BY <1>7, <1>12, <1>13
<1>. QED  BY <1>4, <1>14 DEF r, s

\* url_authority and the Host header agree for the schemes a signer takes.
LEMMA SchemeAuthority ==
  ASSUME NEW base, base.scheme \in {"http", "https"}
  PROVE  UrlAuthority(base) = HostHeader(base)
<1>1. CASE base.scheme = "http"
  BY <1>1 DEF UrlAuthority, HostHeader
<1>2. CASE base.scheme = "https"
  BY <1>2 DEF UrlAuthority, HostHeader
<1>. QED  BY <1>1, <1>2

LEMMA SignersAuthority ==
  ASSUME NEW signer, NEW call, Signs(signer, call)
  PROVE  UrlAuthority(call.base) = HostHeader(call.base)
<1>1. call.base.scheme \in {"http", "https"}
  BY DEF Signs, CliSigns, JsSigns, JsBaseOK
<1>. QED  BY <1>1, SchemeAuthority

LEMMA SignatureProves ==
  ASSUME NEW c \in Configs, NEW input \in Inputs(c), NEW now \in Clock, ~input.request.repeated,
         AuthorizeSigned(input.request, input.request.query, c, now) = Accepted
  PROVE  /\ Signed(input) /\ Intact(input)
         /\ now <= input.call.expires
         /\ c.keys[input.call.keyId] = input.call.secret
         /\ RequestAuthority(input.request, c) = HostHeader(input.call.base)
<1>. DEFINE request == input.request
            q == request.query
            call == input.call
            o == IF input.signer = "cli" THEN Settled(call.options) ELSE JsSettled(call.options)
            signed == SignedQuery(call, o)
            route == RoutePath(call.source.kind)
            text == Canonical(call.method, UrlAuthority(call.base), route, signed)
            mac == Hmac(call.secret, text)
<1>0. /\ call.source.kind \in {"path", "url"} /\ call.expires \in Int /\ now \in Int
      /\ QueryRead(q) /\ Unforged(input, c.keys)
  <2>1. CallRead(call) /\ now \in Int /\ QueryRead(q) /\ Unforged(input, c.keys)
    BY InputAssumption
  <2>2. call.source.kind \in {"path", "url"} /\ call.expires \in Nat
    BY <2>1 DEF CallRead
  <2>. QED  BY ONLY <2>1, <2>2
<1>1. /\ AuthNames \subseteq DOMAIN q /\ q["keyId"] \in DOMAIN c.keys
      /\ ~Expired(q["expires"], now) /\ SignatureOK(request, q, c)
  BY DEF AuthorizeSigned, AuthParamsGiven, Accepted, AuthNames
<1>. DEFINE key == c.keys[q["keyId"]]
            arrived == Canonical(request.method, RequestAuthority(request, c), request.path, q)
<1>2. q["signature"].case = "lower" /\ q["signature"].mac = Hmac(key, arrived)
  BY <1>1 DEF SignatureOK
<1>3. q["signature"].mac.secret = key
  BY <1>2 DEF Hmac
<1>4. /\ Signed(input) /\ Signs(input.signer, call)
      /\ q["signature"].mac = Sign(input.signer, call).query["signature"].mac
  BY <1>0, <1>1, <1>3 DEF Unforged, AuthNames
<1>5. /\ {"keyId", "expires"} \subseteq DOMAIN signed /\ "signature" \notin DOMAIN signed
      /\ signed["keyId"] = call.keyId /\ signed["expires"] = call.expires
      /\ signed = [n \in DOMAIN signed |-> signed[n]]
  BY <1>0, SignedQueryIs
<1>. HIDE DEF signed, o
<1>6. /\ Sign(input.signer, call).method = call.method /\ Sign(input.signer, call).path = route
      /\ Sign(input.signer, call).query = Over(signed, One("signature", [mac |-> mac, case |-> "lower"]))
  BY DEF Sign, SignedWith, signed, o
<1>7. Sign(input.signer, call).query["signature"].mac = mac
  <2>. DEFINE s == One("signature", [mac |-> mac, case |-> "lower"])
  <2>1. DOMAIN s = {"signature"} /\ s["signature"] = [mac |-> mac, case |-> "lower"]
    BY OneDomain, OneIs
  <2>. HIDE DEF s, mac
  <2>2. Over(signed, s)["signature"] = s["signature"]
    BY <1>5, <2>1, OverSecond
  <2>. QED  BY <1>6, <2>1, <2>2 DEF s
<1>8. Hmac(key, arrived) = mac
  BY <1>2, <1>4, <1>7
<1>9. key = call.secret /\ arrived = text
  BY <1>8 DEF Hmac
<1>10. /\ request.method = call.method /\ request.path = route
       /\ RequestAuthority(request, c) = UrlAuthority(call.base)
       /\ Without(q, {"signature"}) = Without(signed, {"signature"})
  BY <1>9 DEF Canonical
<1>. HIDE DEF mac, text, arrived, q
<1>11. /\ q = Over(signed, One("signature", [mac |-> mac, case |-> "lower"]))
       /\ \A n \in DOMAIN signed : n \in DOMAIN q => q[n] = signed[n]
  BY <1>0, <1>1, <1>2, <1>5, <1>8, <1>10, VerifiedQuery DEF AuthNames
<1>12. q["keyId"] = call.keyId /\ q["expires"] = call.expires
  BY <1>1, <1>5, <1>11 DEF AuthNames
<1>13. Intact(input)
  BY <1>6, <1>10, <1>11 DEF Intact, q
<1>14. now <= call.expires
  BY <1>0, <1>1, <1>12 DEF Expired
<1>15. UrlAuthority(call.base) = HostHeader(call.base)
  BY <1>4, SignersAuthority
<1>. QED  BY <1>4, <1>9, <1>10, <1>12, <1>13, <1>14, <1>15

\* No work without leave: a source is read or a cache asked only for a request
\* that carries the server's token, or that is, in its method, authority, path
\* and every parameter, one a holder of a configured key signed and that has
\* not expired.
THEOREM WorkIsAuthorized == Spec => []WorkOnlyAuthorized
<1>1. Init => config \in Configs /\ WorkOnlyAuthorized
  BY DEF Init, NoExchange, WorkOnlyAuthorized
<1>2. ASSUME config \in Configs, WorkOnlyAuthorized, [Next]_vars
      PROVE  (config \in Configs /\ WorkOnlyAuthorized)'
  <2>1. ASSUME NEW w \in Workers, Serve(w) PROVE WorkOnlyAuthorized' /\ config' = config
    <3>0. config' = config
      BY <2>1 DEF Serve
    <3>1. PICK input \in Inputs(config), now \in Clock, allowed \in BOOLEAN :
            /\ exchange'.input = input /\ exchange'.now = now
            /\ exchange'.answer = Given(input, now, allowed)
      BY <2>1, Served
    <3>. SUFFICES ASSUME exchange'.answer.work.done PROVE WorkOnlyAuthorized'
      BY <3>0 DEF WorkOnlyAuthorized
    <3>2. exchange'.answer = RouteRequest(input.request, now)
      BY <3>1, ProblemWork DEF Given
    <3>3. Leave(input.request, now, exchange'.answer.work)
      BY <3>2, RouteLeave
    <3>4. CASE exchange'.answer.work.by = "token"
      <4>1. config.token # Absent /\ input.request.token = config.token
        BY <3>3, <3>4 DEF Leave, AuthorizeRequest, Accepted
      <4>. QED  BY <3>0, <3>1, <3>4, <4>1 DEF WorkOnlyAuthorized
    <3>5. CASE exchange'.answer.work.by # "token"
      <4>1. /\ ~input.request.repeated
            /\ AuthorizeSigned(input.request, input.request.query, config, now) = Accepted
        BY <3>3, <3>5 DEF Leave
      <4>2. /\ Signed(input) /\ Intact(input)
            /\ now <= input.call.expires
            /\ config.keys[input.call.keyId] = input.call.secret
            /\ RequestAuthority(input.request, config) = HostHeader(input.call.base)
        BY <1>2, <4>1, SignatureProves
      <4>. QED  BY <3>0, <3>1, <3>5, <4>2 DEF WorkOnlyAuthorized
    <3>. QED  BY <3>4, <3>5
  <2>2. ASSUME NEW w \in Workers, RefuseHead(w) \/ RecordStep(w) PROVE WorkOnlyAuthorized' /\ config' = config
    BY <2>2 DEF RefuseHead, RecordStep, NoExchange, WorkOnlyAuthorized
  <2>3. CASE UNCHANGED vars
    BY <1>2, <2>3 DEF vars, WorkOnlyAuthorized
  <2>. QED  BY <1>2, <2>1, <2>2, <2>3 DEF Next
<1>. QED  BY <1>1, <1>2, PTL DEF Spec

-----------------------------------------------------------------------------
(* What a signed URL gets *)

\* A query reads as one of its parts does, for the names of that part.
Agrees(q, part, names) ==
  \A n \in names : (n \in DOMAIN q <=> n \in DOMAIN part) /\ (n \in DOMAIN part => q[n] = part[n])

LEMMA AgreesOwn ==
  ASSUME NEW f, NEW g, NEW names, DOMAIN g \cap names = {} PROVE Agrees(Over(f, g), f, names)
<1>1. DOMAIN Over(f, g) = DOMAIN f \cup DOMAIN g
  BY OverDomain
<1>2. \A n \in DOMAIN f : Over(f, g)[n] = f[n]
  BY OverFirst
<1>. QED  BY <1>1, <1>2 DEF Agrees

LEMMA AgreesPast ==
  ASSUME NEW f, NEW g, NEW part, NEW names, DOMAIN f \cap names = {}, Agrees(g, part, names)
  PROVE  Agrees(Over(f, g), part, names)
<1>1. DOMAIN Over(f, g) = DOMAIN f \cup DOMAIN g
  BY OverDomain
<1>2. \A n \in DOMAIN g \ DOMAIN f : Over(f, g)[n] = g[n]
  BY OverSecond
<1>. QED  BY <1>1, <1>2 DEF Agrees

LEMMA AgreesGet ==
  ASSUME NEW q, NEW part, NEW names, Agrees(q, part, names), NEW n \in names, NEW d
  PROVE  Get(q, n, d) = Get(part, n, d)
BY DEF Agrees, Get

\* The query of a signed URL holds each of its parts, and nothing else.
LEMMA SignedParts ==
  ASSUME NEW call, NEW o, call.source.kind \in {"path", "url"}, NEW s
  PROVE  LET q == Over(SignedQuery(call, o), One("signature", s))
         IN /\ Agrees(q, SourceQuery(call.source), SourceNames)
            /\ Agrees(q, PresetQuery(call.preset), {"preset"})
            /\ Agrees(q, TransformQuery(o), OptionNames)
            /\ Agrees(q, WatermarkQuery(call.watermark), MarkNames)
            /\ DOMAIN q \subseteq SourceNames \cup {"preset"} \cup OptionNames \cup MarkNames \cup AuthNames
<1>. DEFINE sq == SourceQuery(call.source)
            pq == PresetQuery(call.preset)
            tq == TransformQuery(o)
            wq == WatermarkQuery(call.watermark)
            aq == Over(One("keyId", call.keyId), One("expires", call.expires))
            q4 == Over(wq, aq)
            q3 == Over(tq, q4)
            q2 == Over(pq, q3)
            q1 == Over(sq, q2)
            x == One("signature", s)
            q == Over(q1, x)
<1>1. /\ DOMAIN sq \subseteq SourceNames /\ DOMAIN pq \subseteq {"preset"}
      /\ DOMAIN tq \subseteq OptionNames /\ DOMAIN wq \subseteq MarkNames
  BY QueryPartNames
<1>2. SignedQuery(call, o) = q1
  BY DEF SignedQuery
<1>3. DOMAIN aq \subseteq AuthNames /\ DOMAIN x \subseteq AuthNames
  <2>1. DOMAIN One("keyId", call.keyId) = {"keyId"} /\ DOMAIN One("expires", call.expires) = {"expires"}
    BY OneDomain
  <2>2. DOMAIN aq = DOMAIN One("keyId", call.keyId) \cup DOMAIN One("expires", call.expires)
    BY OverDomain
  <2>3. DOMAIN x = {"signature"}
    BY OneDomain
  <2>. QED  BY <2>1, <2>2, <2>3 DEF AuthNames
<1>. HIDE DEF sq, pq, tq, wq, aq, x
<1>4. /\ DOMAIN q4 = DOMAIN wq \cup DOMAIN aq /\ DOMAIN q3 = DOMAIN tq \cup DOMAIN q4
      /\ DOMAIN q2 = DOMAIN pq \cup DOMAIN q3 /\ DOMAIN q1 = DOMAIN sq \cup DOMAIN q2
      /\ DOMAIN q = DOMAIN q1 \cup DOMAIN x
  BY OverDomain
<1>5. Agrees(q4, wq, MarkNames)
  <2>1. DOMAIN aq \cap MarkNames = {}
    BY <1>3, NamesApart
  <2>. QED  BY <2>1, AgreesOwn
<1>. HIDE DEF q4
<1>6. Agrees(q3, wq, MarkNames) /\ Agrees(q3, tq, OptionNames)
  <2>1. DOMAIN tq \cap MarkNames = {}
    BY <1>1, NamesApart
  <2>2. DOMAIN q4 \cap OptionNames = {}
    BY <1>1, <1>3, <1>4, NamesApart
  <2>. QED  BY <1>5, <2>1, <2>2, AgreesOwn, AgreesPast
<1>. HIDE DEF q3
<1>7. Agrees(q2, wq, MarkNames) /\ Agrees(q2, tq, OptionNames) /\ Agrees(q2, pq, {"preset"})
  <2>1. DOMAIN pq \cap MarkNames = {} /\ DOMAIN pq \cap OptionNames = {}
    BY <1>1, NamesApart
  <2>2. DOMAIN q3 \cap {"preset"} = {}
    BY <1>1, <1>3, <1>4, NamesApart
  <2>. QED  BY <1>6, <2>1, <2>2, AgreesOwn, AgreesPast
<1>. HIDE DEF q2
<1>8. /\ Agrees(q1, wq, MarkNames) /\ Agrees(q1, tq, OptionNames) /\ Agrees(q1, pq, {"preset"})
      /\ Agrees(q1, sq, SourceNames)
  <2>1. DOMAIN sq \cap MarkNames = {} /\ DOMAIN sq \cap OptionNames = {} /\ DOMAIN sq \cap {"preset"} = {}
    BY <1>1, NamesApart
  <2>2. DOMAIN q2 \cap SourceNames = {}
    BY <1>1, <1>3, <1>4, NamesApart
  <2>. QED  BY <1>7, <2>1, <2>2, AgreesOwn, AgreesPast
<1>. HIDE DEF q1
<1>9. ASSUME NEW part, NEW names, Agrees(q1, part, names), names \cap AuthNames = {}
      PROVE  Agrees(q, part, names)
  <2>1. Agrees(q, q1, names)
    <3>1. DOMAIN x \cap names = {}
      BY <1>3, <1>9
    <3>. QED  BY <3>1, AgreesOwn
  <2>. QED  BY <1>9, <2>1 DEF Agrees
<1>10. /\ MarkNames \cap AuthNames = {} /\ OptionNames \cap AuthNames = {}
       /\ {"preset"} \cap AuthNames = {} /\ SourceNames \cap AuthNames = {}
  BY NamesApart
<1>11. DOMAIN q \subseteq SourceNames \cup {"preset"} \cup OptionNames \cup MarkNames \cup AuthNames
  BY ONLY <1>1, <1>3, <1>4
<1>. HIDE DEF q
<1>12. /\ Agrees(q, sq, SourceNames) /\ Agrees(q, pq, {"preset"})
       /\ Agrees(q, tq, OptionNames) /\ Agrees(q, wq, MarkNames)
  BY ONLY <1>8, <1>9, <1>10
<1>. QED  BY <1>2, <1>11, <1>12 DEF q, x, sq, pq, tq, wq

\* A parameter that is written only when it is given.
Optional(name, value, absent) == IF value = absent THEN <<>> ELSE One(name, value)

LEMMA GivenOnly ==
  ASSUME NEW name, NEW value, NEW absent
  PROVE  LET f == Optional(name, value, absent)
         IN /\ DOMAIN f \subseteq {name} /\ (name \in DOMAIN f <=> value # absent)
            /\ value # absent => f[name] = value
            /\ Get(f, name, absent) = value
<1>. DEFINE f == Optional(name, value, absent)
<1>0. DOMAIN <<>> = {}
  OBVIOUS
<1>1. CASE value = absent
  <2>1. DOMAIN f = {}
    BY <1>0, <1>1 DEF Optional
  <2>. HIDE DEF f
  <2>. QED  BY ONLY <1>1, <2>1 DEF Get, f
<1>2. CASE value # absent
  <2>1. f = One(name, value)
    BY <1>2 DEF Optional
  <2>2. DOMAIN f = {name} /\ f[name] = value
    BY <2>1, OneDomain, OneIs
  <2>. QED  BY ONLY <1>2, <2>2 DEF Get
<1>. QED  BY <1>1, <1>2

LEMMA SourceRead ==
  ASSUME NEW s, s.kind \in {"path", "url"}
  PROVE  LET sq == SourceQuery(s)
         IN /\ DOMAIN sq \subseteq {s.kind, "version"}
            /\ Get(sq, s.kind, NoText) = s.reference /\ Get(sq, "version", Absent) = s.version
<1>. DEFINE f == One(s.kind, s.reference)
            v == Optional("version", s.version, Absent)
            sq == Over(f, v)
<1>1. DOMAIN f = {s.kind} /\ f[s.kind] = s.reference
  BY OneDomain, OneIs
<1>2. DOMAIN v \subseteq {"version"} /\ Get(v, "version", Absent) = s.version
  BY GivenOnly
<1>3. SourceQuery(s) = sq
  BY DEF SourceQuery, Optional
<1>. HIDE DEF f, v
<1>4. DOMAIN sq = DOMAIN f \cup DOMAIN v
  BY OverDomain
<1>5. Agrees(sq, f, {s.kind})
  BY <1>2, AgreesOwn
<1>6. DOMAIN f \cap {"version"} = {}
  BY <1>1
<1>7. Agrees(sq, v, {"version"})
  <2>1. Agrees(v, v, {"version"})
    BY DEF Agrees
  <2>. QED  BY <1>6, <2>1, AgreesPast
<1>. HIDE DEF sq
<1>8. Get(sq, s.kind, NoText) = Get(f, s.kind, NoText) /\ Get(sq, "version", Absent) = Get(v, "version", Absent)
  <2>1. Get(sq, s.kind, NoText) = Get(f, s.kind, NoText)
    <3>1. /\ s.kind \in DOMAIN sq /\ s.kind \in DOMAIN f /\ sq[s.kind] = f[s.kind]
      BY ONLY <1>1, <1>5 DEF Agrees
    <3>. QED  BY ONLY <3>1, Zenon DEF Get
  <2>2. Get(sq, "version", Absent) = Get(v, "version", Absent)
    BY ONLY <1>7, AgreesGet
  <2>. QED  BY <2>1, <2>2, Zenon
<1>9. Get(f, s.kind, NoText) = s.reference
  BY <1>1 DEF Get
<1>10. DOMAIN sq \subseteq {s.kind, "version"}
  BY ONLY <1>1, <1>2, <1>4
<1>11. /\ DOMAIN sq \subseteq {s.kind, "version"}
       /\ Get(sq, s.kind, NoText) = s.reference /\ Get(sq, "version", Absent) = s.version
  BY ONLY <1>2, <1>8, <1>9, <1>10, Zenon
<1>. QED  BY ONLY <1>3, <1>11, Zenon

LEMMA MarkRead ==
  ASSUME NEW w, w = [url |-> w.url, position |-> w.position, opacity |-> w.opacity, margin |-> w.margin],
         w.url = Absent => w.position = Absent /\ w.opacity = None /\ w.margin = None
  PROVE  LET wq == WatermarkQuery(w)
         IN /\ WatermarkOf(wq) = w
            /\ w.url # Absent => "watermarkUrl" \in DOMAIN wq
            /\ w.url = Absent => DOMAIN wq = {}
            /\ "watermarkOpacity" \in DOMAIN wq => w.opacity # None /\ wq["watermarkOpacity"] = w.opacity
            /\ "watermarkMargin" \in DOMAIN wq => w.margin # None /\ wq["watermarkMargin"] = w.margin
<1>. DEFINE u == One("watermarkUrl", w.url)
            p == Optional("watermarkPosition", w.position, Absent)
            o == Optional("watermarkOpacity", w.opacity, None)
            m == Optional("watermarkMargin", w.margin, None)
            om == Over(o, m)
            pom == Over(p, om)
            all == Over(u, pom)
            wq == WatermarkQuery(w)
<1>1. CASE w.url = Absent
  <2>1. wq = <<>>
    BY <1>1 DEF WatermarkQuery
  <2>2. DOMAIN wq = {}
    BY <2>1
  <2>. HIDE DEF wq
  <2>3. WatermarkOf(wq) = [url |-> Absent, position |-> Absent, opacity |-> None, margin |-> None]
    BY <2>2 DEF WatermarkOf, Get
  <2>4. WatermarkOf(wq) = w
    BY <1>1, <2>3
  <2>. QED  BY ONLY <1>1, <2>2, <2>4 DEF wq
<1>2. CASE w.url # Absent
  <2>1. wq = all
    BY <1>2 DEF WatermarkQuery, Optional
  <2>2. DOMAIN u = {"watermarkUrl"} /\ u["watermarkUrl"] = w.url
    BY OneDomain, OneIs
  <2>3. DOMAIN p \subseteq {"watermarkPosition"} /\ Get(p, "watermarkPosition", Absent) = w.position
    BY GivenOnly
  <2>4. /\ DOMAIN o \subseteq {"watermarkOpacity"} /\ Get(o, "watermarkOpacity", None) = w.opacity
        /\ "watermarkOpacity" \in DOMAIN o <=> w.opacity # None
        /\ w.opacity # None => o["watermarkOpacity"] = w.opacity
    BY GivenOnly
  <2>5. /\ DOMAIN m \subseteq {"watermarkMargin"} /\ Get(m, "watermarkMargin", None) = w.margin
        /\ "watermarkMargin" \in DOMAIN m <=> w.margin # None
        /\ w.margin # None => m["watermarkMargin"] = w.margin
    BY GivenOnly
  <2>. HIDE DEF u, p, o, m
  <2>6. Agrees(om, o, {"watermarkOpacity"}) /\ Agrees(om, m, {"watermarkMargin"})
    <3>1. DOMAIN m \cap {"watermarkOpacity"} = {} /\ DOMAIN o \cap {"watermarkMargin"} = {}
      BY <2>4, <2>5
    <3>2. Agrees(m, m, {"watermarkMargin"})
      BY DEF Agrees
    <3>. QED  BY <3>1, <3>2, AgreesOwn, AgreesPast
  <2>7. DOMAIN om = DOMAIN o \cup DOMAIN m /\ DOMAIN pom = DOMAIN p \cup DOMAIN om
    BY OverDomain
  <2>. HIDE DEF om
  <2>8. /\ Agrees(pom, o, {"watermarkOpacity"}) /\ Agrees(pom, m, {"watermarkMargin"})
        /\ Agrees(pom, p, {"watermarkPosition"})
    <3>1. DOMAIN p \cap {"watermarkOpacity"} = {} /\ DOMAIN p \cap {"watermarkMargin"} = {}
      BY <2>3
    <3>2. DOMAIN om \cap {"watermarkPosition"} = {}
      BY <2>4, <2>5, <2>7
    <3>. QED  BY <2>6, <3>1, <3>2, AgreesOwn, AgreesPast
  <2>. HIDE DEF pom
  <2>9. /\ Agrees(all, o, {"watermarkOpacity"}) /\ Agrees(all, m, {"watermarkMargin"})
        /\ Agrees(all, p, {"watermarkPosition"}) /\ Agrees(all, u, {"watermarkUrl"})
    <3>1. /\ DOMAIN u \cap {"watermarkOpacity"} = {} /\ DOMAIN u \cap {"watermarkMargin"} = {}
          /\ DOMAIN u \cap {"watermarkPosition"} = {}
      BY <2>2
    <3>2. DOMAIN pom \cap {"watermarkUrl"} = {}
      BY <2>3, <2>4, <2>5, <2>7
    <3>. QED  BY <2>8, <3>1, <3>2, AgreesOwn, AgreesPast
  <2>. HIDE DEF all, wq
  <2>10. /\ Get(all, "watermarkOpacity", None) = w.opacity /\ Get(all, "watermarkMargin", None) = w.margin
         /\ Get(all, "watermarkPosition", Absent) = w.position
    BY <2>3, <2>4, <2>5, <2>9, AgreesGet
  <2>11. "watermarkUrl" \in DOMAIN all /\ Get(all, "watermarkUrl", Absent) = w.url
    BY <2>2, <2>9 DEF Agrees, Get
  <2>12. WatermarkOf(all) = w
    BY <2>10, <2>11 DEF WatermarkOf
  <2>13. /\ "watermarkOpacity" \in DOMAIN all => w.opacity # None /\ all["watermarkOpacity"] = w.opacity
         /\ "watermarkMargin" \in DOMAIN all => w.margin # None /\ all["watermarkMargin"] = w.margin
    BY <2>4, <2>5, <2>9 DEF Agrees
  <2>. QED  BY ONLY <1>2, <2>1, <2>11, <2>12, <2>13 DEF wq
<1>. QED  BY <1>1, <1>2

LEMMA RotationReduced ==
  ASSUME NEW v \in (-I64Max - 1)..I64Max
  PROVE  /\ RotationValue(v).ok /\ RotationValue(v).value = JsRotation(v)
         /\ JsRotation(v) \in Nat /\ JsRotation(v) < 360
         /\ v \in Nat /\ v < 360 => RotationValue(v).value = v
<1>0. I64Max \in Nat
  BY WidthsAssumption
<1>1. v \in Int
  BY <1>0
<1>2. RotationValue(v).ok /\ RotationValue(v).value = ((v % 360) + 360) % 360
  BY DEF RotationValue
<1>3. ((v % 360) + 360) % 360 \in Nat /\ ((v % 360) + 360) % 360 < 360
  BY ONLY <1>1
<1>4. v \in Nat /\ v < 360 => ((v % 360) + 360) % 360 = v
  BY ONLY <1>1
<1>. QED  BY ONLY <1>2, <1>3, <1>4 DEF JsRotation

\* A rotation that was reduced is read as it was written.
LEMMA TurnRead ==
  ASSUME NEW v, v \in Nat, v < 360 PROVE v # Word /\ RotationValue(v).ok /\ RotationValue(v).value = v
<1>1. v \in (-I64Max - 1)..I64Max
  BY WidthsAssumption
<1>2. v # Word
  BY DEF Word
<1>. QED  BY <1>1, <1>2, RotationReduced

\* Both signers settle the options alike, and change only two of them.
LEMMA SettledFacts ==
  ASSUME NEW o, o = [n \in DOMAIN DefaultOptions |-> o[n]], \A n \in FlagNames : o[n] \in BOOLEAN,
         o.rotate \in (-I64Max - 1)..I64Max
  PROVE  LET a == Settled(o)
         IN /\ JsSettled(o) = a
            /\ \A n \in DOMAIN DefaultOptions \ {"strip", "rotate"} : a[n] = o[n]
            /\ \A n \in FlagNames : a[n] \in BOOLEAN
            /\ a["rotate"] \in Nat /\ a["rotate"] < 360
<1>. DEFINE D == DOMAIN DefaultOptions
            r == ResolvedMetadata(o)
            a == [r EXCEPT !["rotate"] = RotationValue(r["rotate"]).value]
            j == [r EXCEPT !["rotate"] = JsRotation(r["rotate"])]
<1>1. "strip" \in D /\ "rotate" \in D /\ FlagNames \subseteq D
  BY DEF DefaultOptions, FlagNames
<1>2. r = [o EXCEPT !["strip"] = o["strip"] /\ ~o["preserveExif"]]
  BY DEF ResolvedMetadata
<1>3. DOMAIN o = D
  OBVIOUS
<1>4. r["strip"] \in BOOLEAN
  <2>1. r["strip"] = (o["strip"] /\ ~o["preserveExif"])
    BY <1>1, <1>2, <1>3, Zenon
  <2>. QED  BY <2>1
<1>5. DOMAIN r = D /\ \A n \in D \ {"strip"} : r[n] = o[n]
  BY ONLY <1>2, <1>3
<1>6. Settled(o) = a /\ JsSettled(o) = j
  BY DEF Settled, JsSettled
<1>. HIDE DEF r, D
<1>7. r["rotate"] \in (-I64Max - 1)..I64Max
  <2>1. r["rotate"] = o["rotate"]
    BY <1>1, <1>5
  <2>. QED  BY <2>1
<1>8. a = j
  BY <1>7, RotationReduced
<1>9. a["rotate"] = JsRotation(r["rotate"])
  BY <1>1, <1>5, <1>7, RotationReduced
<1>10. \A n \in D \ {"rotate"} : a[n] = r[n]
  BY <1>5
<1>11. a["rotate"] \in Nat /\ a["rotate"] < 360
  BY <1>7, <1>9, RotationReduced
<1>. HIDE DEF a
<1>12. \A n \in D \ {"strip", "rotate"} : a[n] = o[n]
  BY ONLY <1>5, <1>10
<1>13. \A n \in FlagNames : a[n] \in BOOLEAN
  <2>1. "rotate" \notin FlagNames
    BY DEF FlagNames
  <2>. SUFFICES ASSUME NEW n \in FlagNames PROVE a[n] \in BOOLEAN
    OBVIOUS
  <2>2. CASE n = "strip"
    <3>1. a["strip"] = r["strip"]
      BY <1>1, <1>10
    <3>. QED  BY ONLY <1>4, <2>2, <3>1, Zenon
  <2>3. CASE n # "strip"
    <3>1. a[n] = o[n] /\ o[n] \in BOOLEAN
      BY <1>1, <1>12, <2>1, <2>3
    <3>. QED  BY ONLY <3>1, Zenon
  <2>. QED  BY <2>2, <2>3
<1>. QED  BY <1>6, <1>8, <1>11, <1>12, <1>13, Zenon DEF D

\* Each option is read as it was settled.
LEMMA ReadWritten ==
  ASSUME NEW a, \A n \in FlagNames : a[n] \in BOOLEAN, a["rotate"] \in Nat, a["rotate"] < 360,
         NEW n \in OptionNames
  PROVE  /\ Read(n, Written(n, a[n])) = a[n]
         /\ n \in FlagNames => Written(n, a[n]) \in {"true", "false"}
         /\ n \notin FlagNames => Written(n, a[n]) = a[n]
<1>1. CASE n \in FlagNames
  <2>1. a[n] \in BOOLEAN
    BY <1>1
  <2>2. CASE a[n] = TRUE
    <3>1. Written(n, a[n]) = "true"
      BY <1>1, <2>2 DEF Written
    <3>2. Read(n, "true") = TRUE
      <4>1. n # "rotate"
        BY <1>1 DEF FlagNames
      <4>2. Read(n, "true") = ("true" = "true")
        BY <1>1, <4>1, Zenon DEF Read
      <4>. QED  BY <4>2
    <3>. QED  BY <1>1, <2>2, <3>1, <3>2, Zenon
  <2>3. CASE a[n] = FALSE
    <3>1. Written(n, a[n]) = "false"
      BY <1>1, <2>3 DEF Written
    <3>2. Read(n, "false") = FALSE
      <4>1. n # "rotate"
        BY <1>1 DEF FlagNames
      <4>2. Read(n, "false") = ("false" = "true")
        BY <1>1, <4>1, Zenon DEF Read
      <4>. QED  BY <4>2
    <3>. QED  BY <1>1, <2>3, <3>1, <3>2, Zenon
  <2>. QED  BY <2>1, <2>2, <2>3, Zenon
<1>2. CASE n = "rotate"
  <2>1. n \notin FlagNames
    BY <1>2 DEF FlagNames
  <2>2. Written(n, a[n]) = a[n]
    BY <2>1 DEF Written
  <2>3. Read(n, a[n]) = RotationValue(a[n]).value
    BY <1>2, <2>1 DEF Read
  <2>4. RotationValue(a[n]).value = a[n]
    BY <1>2, TurnRead
  <2>. QED  BY ONLY <2>1, <2>2, <2>3, <2>4
<1>3. CASE n \notin FlagNames /\ n # "rotate"
  BY <1>3 DEF Read, Written
<1>. QED  BY <1>1, <1>2, <1>3

\* What no rule of the options refuses is in the range its reader takes.
LEMMA ValidMeans ==
  ASSUME NEW o, ValidateWithoutInput(o) = "ok"
  PROVE  /\ o.quality = None \/ o.quality \in 1..100
         /\ o.blur = None \/ o.blur \in 1..1000
         /\ o.sharpen = None \/ o.sharpen \in 1..1000
<1>. DEFINE badQuality == o.quality # None /\ o.quality \notin 1..100
            badBlur == o.blur # None /\ o.blur \notin 1..1000
            badSharpen == o.sharpen # None /\ o.sharpen \notin 1..1000
            rules == <<
              <<o.width = 0, "width">>,
              <<o.height = 0, "height">>,
              <<badQuality, "quality">>,
              <<TargetOutOfRange(o.target), "targetQuality">>,
              <<badBlur, "blur">>,
              <<badSharpen, "sharpen">>,
              <<o.crop # <<>> /\ (o.crop[3] = 0 \/ o.crop[4] = 0), "crop">>,
              <<o.fit # "none" /\ ~Bounded(o), "fit needs both">>,
              <<o.position # "none" /\ ~Bounded(o), "position needs both">>,
              <<o.withoutEnlargement /\ o.width = None /\ o.height = None, "withoutEnlargement">>,
              <<o.preserveExif /\ o.strip, "preserveExif needs metadata">> >>
            broken == {i \in DOMAIN rules : rules[i][1]}
            k == CHOOSE i \in broken : \A j \in broken : i <= j
<1>1. FirstBroken(rules) = "ok"
  BY Zenon DEF ValidateWithoutInput
<1>2. /\ DOMAIN rules = 1..11
      /\ \A i \in 1..11 : rules[i][2] # "ok"
      /\ rules[3][1] = badQuality /\ rules[5][1] = badBlur /\ rules[6][1] = badSharpen
  OBVIOUS
<1>. HIDE DEF rules, badQuality, badBlur, badSharpen
<1>3. broken = {}
  <2>. SUFFICES ASSUME broken # {} PROVE FALSE
    OBVIOUS
  <2>1. FirstBroken(rules) = rules[k][2]
    BY DEF FirstBroken
  <2>2. broken \in SUBSET (1..11)
    BY <1>2
  <2>. HIDE DEF broken
  <2>3. k \in broken
    <3>1. broken \in SUBSET Nat
      BY <2>2
    <3>2. \E i \in broken : \A j \in broken : i <= j
      BY <3>1, Least
    <3>. QED  BY <3>2
  <2>. HIDE DEF k
  <2>. QED  BY <1>1, <1>2, <2>1, <2>2, <2>3
<1>4. ~ rules[3][1] /\ ~ rules[5][1] /\ ~ rules[6][1]
  BY <1>2, <1>3
<1>5. ~badQuality /\ ~badBlur /\ ~badSharpen
  BY ONLY <1>2, <1>4, Zenon
<1>. QED  BY ONLY <1>5 DEF badQuality, badBlur, badSharpen

\* The options of the query are those that were not at their defaults.
LEMMA OptionsRead ==
  ASSUME NEW a, \A n \in FlagNames : a[n] \in BOOLEAN, a["rotate"] \in Nat, a["rotate"] < 360,
         NEW q, Agrees(q, TransformQuery(a), OptionNames)
  PROVE  /\ DOMAIN PayloadOf(q) \subseteq OptionNames
         /\ \A n \in OptionNames : n \in DOMAIN q <=> a[n] # DefaultOptions[n]
         /\ \A n \in OptionNames \cap DOMAIN q : q[n] = Written(n, a[n])
         /\ \A n \in OptionNames : n \in DOMAIN PayloadOf(q) <=> a[n] # DefaultOptions[n]
         /\ \A n \in OptionNames : a[n] # DefaultOptions[n] => PayloadOf(q)[n] = a[n]
<1>. DEFINE t == TransformQuery(a)
            N == OptionNames
            D == DefaultOptions
            p == PayloadOf(q)
<1>1. DOMAIN t = {m \in N : a[m] # D[m]} /\ \A n \in DOMAIN t : t[n] = Written(n, a[n])
  BY DEF TransformQuery
<1>2. DOMAIN p = DOMAIN q \cap N /\ \A n \in DOMAIN p : p[n] = Read(n, q[n])
  BY DEF PayloadOf
<1>0. Agrees(q, t, N)
  OBVIOUS
<1>. HIDE DEF t, N, D, p
<1>3. \A n \in N : n \in DOMAIN q <=> a[n] # D[n]
  BY ONLY <1>0, <1>1 DEF Agrees
<1>4. \A n \in N \cap DOMAIN q : q[n] = Written(n, a[n])
  BY ONLY <1>0, <1>1 DEF Agrees
<1>5. \A n \in N : n \in DOMAIN p <=> a[n] # D[n]
  BY ONLY <1>2, <1>3
<1>6. ASSUME NEW n \in N, a[n] # D[n] PROVE p[n] = a[n]
  <2>1. p[n] = Read(n, Written(n, a[n]))
    BY ONLY <1>2, <1>3, <1>4, <1>6
  <2>2. Read(n, Written(n, a[n])) = a[n]
    BY ReadWritten DEF N
  <2>. QED  BY ONLY <2>1, <2>2
<1>7. DOMAIN p \subseteq N
  BY ONLY <1>2
<1>. QED  BY ONLY <1>3, <1>4, <1>5, <1>6, <1>7 DEF N, D, p

\* What the query asks for, with what its preset adds, is what the call meant.
LEMMA MeantRead ==
  ASSUME NEW a, a["deadline"] = DefaultOptions["deadline"], NEW p, DOMAIN p \subseteq OptionNames,
         \A n \in OptionNames : n \in DOMAIN p <=> a[n] # DefaultOptions[n],
         \A n \in OptionNames : a[n] # DefaultOptions[n] => p[n] = a[n],
         NEW f, NEW n \in DOMAIN DefaultOptions
  PROVE  /\ Get(Merge(p, f), n, DefaultOptions[n]) =
              IF a[n] # DefaultOptions[n] THEN a[n] ELSE Get(f, n, DefaultOptions[n])
         /\ Get(p, n, DefaultOptions[n]) =
              IF a[n] # DefaultOptions[n] THEN a[n] ELSE DefaultOptions[n]
<1>. DEFINE D == DefaultOptions
            m == Merge(p, f)
<1>1. a[n] # D[n] <=> n \in DOMAIN p
  <2>1. CASE n = "deadline"
    <3>1. "deadline" \notin DOMAIN p
      BY DEF OptionNames
    <3>. QED  BY <2>1, <3>1
  <2>2. CASE n # "deadline"
    <3>1. n \in OptionNames
      BY <2>2 DEF OptionNames
    <3>. QED  BY <3>1
  <2>. QED  BY <2>1, <2>2
<1>2. n \in DOMAIN p => p[n] = a[n]
  BY <1>1
<1>. HIDE DEF D
<1>3. DOMAIN m = DOMAIN p \cup DOMAIN f /\ (n \in DOMAIN p => m[n] = p[n])
      /\ (n \in DOMAIN f \ DOMAIN p => m[n] = f[n])
  <2>1. m = Over(p, f)
    BY DEF Merge
  <2>2. DOMAIN Over(p, f) = DOMAIN p \cup DOMAIN f
    BY OverDomain
  <2>3. n \in DOMAIN p => Over(p, f)[n] = p[n]
    BY OverFirst
  <2>4. n \in DOMAIN f \ DOMAIN p => Over(p, f)[n] = f[n]
    BY OverSecond
  <2>. QED  BY ONLY <2>1, <2>2, <2>3, <2>4
<1>. HIDE DEF m
<1>4. Get(m, n, D[n]) = IF a[n] # D[n] THEN a[n] ELSE Get(f, n, D[n])
  BY ONLY <1>1, <1>2, <1>3 DEF Get
<1>5. Get(p, n, D[n]) = IF a[n] # D[n] THEN a[n] ELSE D[n]
  BY ONLY <1>1, <1>2 DEF Get
<1>. QED  BY ONLY <1>4, <1>5 DEF D, m

\* What a signer lets through is in the range its reader takes.
LEMMA DimensionRead ==
  ASSUME NEW v \in Int, DimensionValue(v).ok \/ v \in 0..U32Max
  PROVE  v # Word /\ DimensionValue(v).ok
<1>1. U32Max \in Nat /\ I64Max \in Nat /\ U32Max < I64Max
  BY WidthsAssumption
<1>2. CASE v \in 0..U32Max
  <2>1. Wide(v) = v
    BY <1>1, <1>2 DEF Wide
  <2>. QED  BY <1>1, <1>2, <2>1 DEF DimensionValue, Word
<1>3. CASE DimensionValue(v).ok
  <2>1. Wide(v) \in 0..U32Max
    BY <1>3 DEF DimensionValue
  <2>2. v >= 0
    BY <1>1, <2>1 DEF Wide
  <2>. QED  BY <1>3, <2>2 DEF Word
<1>. QED  BY <1>2, <1>3

LEMMA PercentRead ==
  ASSUME NEW v \in 1..100 PROVE v # Word /\ PercentValue(v).ok
<1>1. I64Max \in Nat /\ 360 < I64Max
  BY WidthsAssumption
<1>2. Wide(v) = v
  BY <1>1 DEF Wide
<1>. QED  BY <1>2 DEF PercentValue, Word

LEMMA SignedNumbers ==
  ASSUME NEW signer, NEW call, CallRead(call), Signs(signer, call)
  PROVE  LET o == call.options
             w == call.watermark
         IN /\ \A d \in {o.width, o.height, w.margin} : d # None => d # Word /\ DimensionValue(d).ok
            /\ w.opacity # None => w.opacity \in 1..100
            /\ w.position \in Positions \cup {Absent}
            /\ w.url # Absent => w.url \in {"https-url", "http-url"}
            /\ w.url = Absent => w.position = Absent /\ w.opacity = None /\ w.margin = None
<1>. DEFINE o == call.options
            w == call.watermark
<1>1. o["width"] \in Int /\ o["height"] \in Int /\ w.margin \in Int
  BY DEF CallRead
<1>2. CASE signer = "cli"
  <2>1. CliSigns(call)
    BY <1>2 DEF Signs
  <2>2. \A d \in {o.width, o.height, w.margin} : d # None => DimensionValue(d).ok
    BY <2>1 DEF CliSigns
  <2>3. \A d \in {o.width, o.height, w.margin} : d # None => d # Word /\ DimensionValue(d).ok
    BY <1>1, <2>2, DimensionRead
  <2>4. /\ w.opacity # None => w.opacity \in 1..100
        /\ w.position \in Positions \cup {Absent}
        /\ w.url # Absent => w.url \in {"https-url", "http-url"}
        /\ w.url = Absent => w.position = Absent /\ w.opacity = None /\ w.margin = None
    BY <2>1 DEF CliSigns, RemoteUrlOK
  <2>. QED  BY <2>3, <2>4
<1>3. CASE signer # "cli"
  <2>1. JsTransformsOK(o) /\ JsWatermarkOK(w)
    BY <1>3 DEF Signs, JsSigns
  <2>2. /\ o.width = None \/ o.width \in 1..U32Max
        /\ o.height = None \/ o.height \in 1..U32Max
        /\ w.margin = None \/ w.margin \in 0..U32Max
    BY <2>1 DEF JsTransformsOK, JsWatermarkOK, JsPixelsOK
  <2>3. \A d \in {o.width, o.height, w.margin} : d # None => d \in 0..U32Max
    BY <2>2, WidthsAssumption
  <2>4. \A d \in {o.width, o.height, w.margin} : d # None => d # Word /\ DimensionValue(d).ok
    BY <1>1, <2>3, DimensionRead
  <2>5. /\ w.opacity # None => w.opacity \in 1..100
        /\ w.position \in Positions \cup {Absent}
        /\ w.url # Absent => w.url \in {"https-url", "http-url"}
        /\ w.url = Absent => w.position = Absent /\ w.opacity = None /\ w.margin = None
    BY <2>1 DEF JsWatermarkOK, JsBetween, RemoteUrlOK
  <2>. QED  BY <2>4, <2>5
<1>. QED  BY <1>2, <1>3

LEMMA TextKinds ==
  ASSUME NEW v
  PROVE  /\ \A n \in {"width", "height", "watermarkMargin"} :
              (v # Word /\ DimensionValue(v).ok) => TextOK(n, v)
         /\ \A n \in {"quality", "watermarkOpacity"} : (v # Word /\ PercentValue(v).ok) => TextOK(n, v)
         /\ (v # Word /\ RotationValue(v).ok) => TextOK("rotate", v)
         /\ \A n \in {"blur", "sharpen"} : v # Word => TextOK(n, v)
         /\ \A n \in FlagNames : v \in {"true", "false"} => TextOK(n, v)
         /\ \A n \in (OptionNames \cup WatermarkNames)
                \ ({"width", "height", "watermarkMargin", "quality", "watermarkOpacity", "rotate", "blur",
                    "sharpen"} \cup FlagNames) : TextOK(n, v)
<1>. DEFINE dim == v # Word /\ DimensionValue(v).ok
            per == v # Word /\ PercentValue(v).ok
            rot == v # Word /\ RotationValue(v).ok
            num == v # Word
            flg == v \in {"true", "false"}
<1>1. \A n : TextOK(n, v) = CASE n \in {"width", "height", "watermarkMargin"} -> dim
                             [] n \in {"quality", "watermarkOpacity"} -> per
                             [] n = "rotate" -> rot
                             [] n \in {"blur", "sharpen"} -> num
                             [] n \in FlagNames -> flg
                             [] OTHER -> TRUE
  BY Zenon DEF TextOK
<1>2. /\ \A n \in FlagNames : /\ n \notin {"width", "height", "watermarkMargin"} /\ n # "rotate"
                              /\ n \notin {"quality", "watermarkOpacity"} /\ n \notin {"blur", "sharpen"}
      /\ {"width", "height", "watermarkMargin", "quality", "watermarkOpacity", "rotate", "blur", "sharpen"}
           \cap FlagNames = {}
  BY DEF FlagNames
<1>. HIDE DEF dim, per, rot, num, flg
<1>3. \A n \in {"width", "height", "watermarkMargin"} : dim => TextOK(n, v)
  BY ONLY <1>1, <1>2
<1>4. \A n \in {"quality", "watermarkOpacity"} : per => TextOK(n, v)
  BY ONLY <1>1, <1>2
<1>5. rot => TextOK("rotate", v)
  BY ONLY <1>1, <1>2
<1>6. \A n \in {"blur", "sharpen"} : num => TextOK(n, v)
  BY ONLY <1>1, <1>2
<1>7. \A n \in FlagNames : flg => TextOK(n, v)
  BY ONLY <1>1, <1>2
<1>8. \A n : n \notin {"width", "height", "watermarkMargin", "quality", "watermarkOpacity", "rotate", "blur",
                       "sharpen"} \cup FlagNames => TextOK(n, v)
  BY ONLY <1>1, <1>2
<1>. QED  BY <1>3, <1>4, <1>5, <1>6, <1>7, <1>8, Zenon DEF dim, per, rot, num, flg

\* The options a call meant, but for the metadata flag that is settled last.
LEMMA MeantIs ==
  ASSUME NEW call, NEW n \in DOMAIN DefaultOptions \ {"strip"}
  PROVE  Settled(call.options)[n] # DefaultOptions[n] => Meant(call)[n] = Settled(call.options)[n]
<1>. DEFINE D == DefaultOptions
            preset == IF call.preset = Absent THEN <<>> ELSE config.presets[call.preset]
            a == Settled(call.options)
            m == [k \in DOMAIN D |-> IF a[k] # D[k] THEN a[k] ELSE Get(preset, k, D[k])]
            v == m.strip /\ ~m.preserveExif
<1>1. Meant(call) = ResolvedMetadata(m)
  BY DEF Meant
<1>2. ResolvedMetadata(m) = [m EXCEPT !.strip = v]
  BY DEF ResolvedMetadata
<1>3. n \in DOMAIN m /\ m[n] = IF a[n] # D[n] THEN a[n] ELSE Get(preset, n, D[n])
  OBVIOUS
<1>. HIDE DEF m, v, a, D, preset
<1>4. [m EXCEPT !.strip = v][n] = m[n]
  BY ONLY <1>3, n # "strip"
<1>. QED  BY <1>1, <1>2, <1>3, <1>4 DEF a, D

\* Every parameter of a signed URL parses.
LEMMA TextsRead ==
  ASSUME NEW signer, NEW call, CallRead(call), Signs(signer, call), Taken(Meant(call)), NEW q,
         Agrees(q, TransformQuery(Settled(call.options)), OptionNames),
         Agrees(q, WatermarkQuery(call.watermark), MarkNames),
         NEW n \in DOMAIN q \cap (OptionNames \cup WatermarkNames)
  PROVE  TextOK(n, q[n])
<1>. DEFINE o == call.options
            w == call.watermark
            a == Settled(o)
            D == DefaultOptions
            wq == WatermarkQuery(w)
<1>1. /\ o = [k \in DOMAIN D |-> o[k]] /\ (\A k \in FlagNames : o[k] \in BOOLEAN)
      /\ o.rotate \in (-I64Max - 1)..I64Max
      /\ w = [url |-> w.url, position |-> w.position, opacity |-> w.opacity, margin |-> w.margin]
  BY DEF CallRead
<1>2. /\ \A k \in DOMAIN D \ {"strip", "rotate"} : a[k] = o[k]
      /\ \A k \in FlagNames : a[k] \in BOOLEAN
      /\ a["rotate"] \in Nat /\ a["rotate"] < 360
  BY <1>1, SettledFacts
<1>3. /\ \A d \in {o.width, o.height, w.margin} : d # None => d # Word /\ DimensionValue(d).ok
      /\ w.opacity # None => w.opacity \in 1..100
      /\ w.url = Absent => w.position = Absent /\ w.opacity = None /\ w.margin = None
  BY SignedNumbers
<1>4. CASE n \in OptionNames
  <2>0. n \in DOMAIN D /\ OptionNames \subseteq DOMAIN D
    BY <1>4 DEF OptionNames
  <2>1. a[n] # D[n] /\ q[n] = Written(n, a[n])
    BY <1>2, <1>4, OptionsRead
  <2>2. /\ n \in FlagNames => Written(n, a[n]) \in {"true", "false"}
        /\ n \notin FlagNames => Written(n, a[n]) = a[n]
    BY <1>2, <1>4, ReadWritten
  <2>3. CASE n \in FlagNames
    <3>1. q[n] \in {"true", "false"}
      BY ONLY <2>1, <2>2, <2>3
    <3>. QED  BY <2>3, <3>1, TextKinds
  <2>4. CASE n \notin FlagNames
    <3>1. q[n] = a[n]
      BY ONLY <2>1, <2>2, <2>4
    <3>2. CASE n \in {"width", "height"}
      <4>1. D[n] = None
        BY <3>2 DEF DefaultOptions
      <4>2. a[n] = o[n] /\ a[n] # None
        <5>1. n \in DOMAIN D \ {"strip", "rotate"}
          BY <2>0, <3>2
        <5>. QED  BY ONLY <1>2, <2>1, <4>1, <5>1
      <4>3. q[n] # Word /\ DimensionValue(q[n]).ok
        BY <1>3, <3>1, <3>2, <4>2
      <4>. QED  BY <3>2, <4>3, TextKinds
    <3>3. CASE n \in {"quality", "blur", "sharpen"}
      <4>1. D[n] = None
        BY <3>3 DEF DefaultOptions
      <4>2. Meant(call)[n] = a[n] /\ a[n] # None
        <5>1. n \in DOMAIN D \ {"strip"}
          BY <2>0, <3>3
        <5>2. Meant(call)[n] = a[n]
          BY <2>1, <5>1, MeantIs
        <5>. QED  BY ONLY <2>1, <4>1, <5>2
      <4>3. ValidateWithoutInput(Meant(call)) = "ok"
        BY DEF Taken
      <4>. HIDE DEF a, D
      <4>4. CASE n = "quality"
        <5>1. a[n] \in 1..100
          <6>1. Meant(call).quality = None \/ Meant(call).quality \in 1..100
            BY <4>3, ValidMeans
          <6>. QED  BY ONLY <4>2, <4>4, <6>1
        <5>2. q[n] # Word /\ PercentValue(q[n]).ok
          BY <3>1, <5>1, PercentRead
        <5>. QED  BY <4>4, <5>2, TextKinds
      <4>5. CASE n \in {"blur", "sharpen"}
        <5>1. a[n] \in 1..1000
          <6>1. /\ Meant(call).blur = None \/ Meant(call).blur \in 1..1000
                /\ Meant(call).sharpen = None \/ Meant(call).sharpen \in 1..1000
            BY <4>3, ValidMeans
          <6>. QED  BY ONLY <4>2, <4>5, <6>1
        <5>2. q[n] # Word
          BY <3>1, <5>1 DEF Word
        <5>. QED  BY <4>5, <5>2, TextKinds
      <4>. QED  BY <3>3, <4>4, <4>5
    <3>4. CASE n = "rotate"
      <4>1. q[n] # Word /\ RotationValue(q[n]).ok
        BY <1>2, <3>1, <3>4, TurnRead
      <4>. QED  BY <3>4, <4>1, TextKinds
    <3>5. CASE n \notin {"width", "height", "quality", "blur", "sharpen", "rotate"}
      <4>1. n \notin MarkNames
        BY <1>4, NamesApart
      <4>2. n \notin {"watermarkMargin", "watermarkOpacity"}
        BY <4>1 DEF MarkNames, WatermarkNames
      <4>. QED  BY <1>4, <2>4, <3>5, <4>2, TextKinds
    <3>. QED  BY <3>2, <3>3, <3>4, <3>5
  <2>. QED  BY <2>3, <2>4
<1>5. CASE n \in WatermarkNames
  <2>1. n \in MarkNames
    BY <1>5 DEF MarkNames
  <2>2. n \in DOMAIN wq /\ q[n] = wq[n]
    BY <2>1 DEF Agrees
  <2>3. /\ "watermarkOpacity" \in DOMAIN wq => w.opacity # None /\ wq["watermarkOpacity"] = w.opacity
        /\ "watermarkMargin" \in DOMAIN wq => w.margin # None /\ wq["watermarkMargin"] = w.margin
    BY <1>1, <1>3, MarkRead
  <2>. HIDE DEF wq
  <2>4. CASE n = "watermarkOpacity"
    <3>1. q[n] \in 1..100
      BY <1>3, <2>2, <2>3, <2>4
    <3>2. q[n] # Word /\ PercentValue(q[n]).ok
      BY <3>1, PercentRead
    <3>. QED  BY <2>4, <3>2, TextKinds
  <2>5. CASE n = "watermarkMargin"
    <3>1. q[n] # Word /\ DimensionValue(q[n]).ok
      BY <1>3, <2>2, <2>3, <2>5
    <3>. QED  BY <2>5, <3>1, TextKinds
  <2>6. CASE n = "watermarkPosition"
    BY <1>5, <2>6, TextKinds DEF FlagNames
  <2>. QED  BY <1>5, <2>4, <2>5, <2>6 DEF WatermarkNames
<1>. QED  BY <1>4, <1>5

\* into_options makes of the query's options and the preset's what was meant.
LEMMA OptionsResolved ==
  ASSUME NEW call, CallRead(call), Taken(Meant(call)), NEW q,
         Agrees(q, TransformQuery(Settled(call.options)), OptionNames),
         call.preset # Absent => call.preset \in DOMAIN config.presets
  PROVE  LET resolved == ResolveOptions(PayloadOf(q), call.preset, config.presets)
         IN resolved.status = Accepted /\ resolved.options = Meant(call)
<1>. DEFINE o == call.options
            a == Settled(o)
            D == DefaultOptions
            p == PayloadOf(q)
            preset == IF call.preset = Absent THEN <<>> ELSE config.presets[call.preset]
            payload == IF call.preset = Absent THEN p ELSE Merge(p, config.presets[call.preset])
            X(n) == Get(payload, n, D[n])
            Y(n) == IF a[n] # D[n] THEN a[n] ELSE Get(preset, n, D[n])
<1>1. /\ o = [k \in DOMAIN D |-> o[k]] /\ (\A k \in FlagNames : o[k] \in BOOLEAN)
      /\ o.rotate \in (-I64Max - 1)..I64Max
  BY DEF CallRead
<1>2. /\ \A k \in DOMAIN D \ {"strip", "rotate"} : a[k] = o[k]
      /\ \A k \in FlagNames : a[k] \in BOOLEAN
      /\ a["rotate"] \in Nat /\ a["rotate"] < 360
  BY <1>1, SettledFacts
<1>3. a["deadline"] = D["deadline"]
  <2>1. "deadline" \in DOMAIN D
    BY DEF DefaultOptions
  <2>2. a["deadline"] = o["deadline"]
    BY ONLY <1>2, <2>1
  <2>3. o["deadline"] = FALSE
    BY DEF CallRead
  <2>4. D["deadline"] = FALSE
    BY Zenon DEF DefaultOptions
  <2>. QED  BY ONLY <2>2, <2>3, <2>4, Zenon
<1>4. /\ DOMAIN p \subseteq OptionNames
      /\ \A n \in OptionNames : n \in DOMAIN p <=> a[n] # D[n]
      /\ \A n \in OptionNames : a[n] # D[n] => p[n] = a[n]
  BY <1>2, OptionsRead
<1>. HIDE DEF a, p
<1>5. ASSUME NEW n \in DOMAIN D PROVE X(n) = Y(n)
  <2>1. CASE call.preset = Absent
    <3>1. payload = p /\ Get(preset, n, D[n]) = D[n]
      BY <2>1 DEF Get
    <3>2. Get(p, n, D[n]) = IF a[n] # D[n] THEN a[n] ELSE D[n]
      BY <1>3, <1>4, MeantRead
    <3>. QED  BY ONLY <3>1, <3>2
  <2>2. CASE call.preset # Absent
    <3>1. payload = Merge(p, preset)
      BY <2>2
    <3>2. Get(Merge(p, preset), n, D[n]) = IF a[n] # D[n] THEN a[n] ELSE Get(preset, n, D[n])
      BY <1>3, <1>4, MeantRead
    <3>. QED  BY ONLY <3>1, <3>2
  <2>. QED  BY <2>1, <2>2
<1>6. Meant(call) = ResolvedMetadata([n \in DOMAIN D |-> Y(n)])
  BY DEF Meant, a
<1>. HIDE DEF X, Y, payload
<1>7. [n \in DOMAIN D |-> X(n)] = [n \in DOMAIN D |-> Y(n)]
  BY ONLY <1>5
<1>8. IntoOptions(payload).options = ResolvedMetadata([n \in DOMAIN D |-> X(n)])
  BY DEF IntoOptions, X
<1>9. IntoOptions(payload).options = Meant(call)
  BY ONLY <1>6, <1>7, <1>8
<1>10. IntoOptions(payload).status = Accepted
  <2>. DEFINE r == ResolvedMetadata([n \in DOMAIN D |-> X(n)])
  <2>1. IntoOptions(payload).status = CASE ~NamesOK(r) -> 400
                   [] NamesOK(r) /\ r.format = "gif" -> 415
                   [] NamesOK(r) /\ r.format # "gif" /\ ValidateWithoutInput(r) # "ok" -> 400
                   [] OTHER -> Accepted
    BY DEF IntoOptions, X
  <2>2. NamesOK(r) /\ r.format # "gif" /\ ValidateWithoutInput(r) = "ok"
    BY <1>6, <1>7 DEF Taken
  <2>. HIDE DEF r
  <2>. QED  BY ONLY <2>1, <2>2
<1>11. ResolveOptions(p, call.preset, config.presets) = IntoOptions(payload)
  BY DEF ResolveOptions, payload
<1>. QED  BY <1>9, <1>10, <1>11 DEF p

\* A signed URL is read back as it was asked for.
LEMMA ParsedAsMeant ==
  ASSUME NEW signer, NEW call, CallRead(call), Signs(signer, call), Taken(Meant(call)), NEW q,
         call.preset # Absent => call.preset \in DOMAIN config.presets,
         Agrees(q, SourceQuery(call.source), SourceNames),
         Agrees(q, PresetQuery(call.preset), {"preset"}),
         Agrees(q, TransformQuery(Settled(call.options)), OptionNames),
         Agrees(q, WatermarkQuery(call.watermark), MarkNames),
         DOMAIN q \subseteq SourceNames \cup {"preset"} \cup OptionNames \cup MarkNames \cup AuthNames
  PROVE  ParsePublicGet(q, call.source.kind, config.presets) =
           Parsed(Accepted, call.source, Meant(call), DrawnWatermark(call.watermark))
<1>. DEFINE s == call.source
            w == call.watermark
            kind == s.kind
            sq == SourceQuery(s)
            wq == WatermarkQuery(w)
            source == [kind |-> kind, reference |-> Get(q, kind, NoText), version |-> Get(q, "version", Absent)]
            resolved == ResolveOptions(PayloadOf(q), Get(q, "preset", Absent), config.presets)
            orphaned == "watermarkUrl" \notin DOMAIN q /\ DOMAIN q \cap WatermarkNames # {}
            malformed == \/ DOMAIN q \ PublicNames(kind) # {}
                         \/ source.reference = NoText
                         \/ orphaned
                         \/ \E n \in DOMAIN q \cap (OptionNames \cup WatermarkNames) : ~TextOK(n, q[n])
<1>1. /\ s = [kind |-> s.kind, reference |-> s.reference, version |-> s.version]
      /\ s.kind \in {"path", "url"}
      /\ w = [url |-> w.url, position |-> w.position, opacity |-> w.opacity, margin |-> w.margin]
  BY DEF CallRead
<1>2. /\ w.opacity # None => w.opacity \in 1..100
      /\ w.position \in Positions \cup {Absent}
      /\ w.url # Absent => w.url \in {"https-url", "http-url"}
      /\ w.url = Absent => w.position = Absent /\ w.opacity = None /\ w.margin = None
  BY SignedNumbers
<1>3. /\ DOMAIN sq \subseteq {s.kind, "version"}
      /\ Get(sq, s.kind, NoText) = s.reference /\ Get(sq, "version", Absent) = s.version
  <2>1. s.kind \in {"path", "url"}
    BY <1>1
  <2>. QED  BY <2>1, SourceRead
<1>4. source = s
  <2>1. s.kind \in SourceNames /\ "version" \in SourceNames
    BY <1>1 DEF SourceNames
  <2>2. Get(q, s.kind, NoText) = Get(sq, s.kind, NoText)
    BY <2>1, AgreesGet
  <2>3. Get(q, "version", Absent) = Get(sq, "version", Absent)
    BY <2>1, AgreesGet
  <2>4. source = [kind |-> s.kind, reference |-> s.reference, version |-> s.version]
    BY <1>3, <2>2, <2>3, Zenon
  <2>. QED  BY ONLY <1>1, <2>4, Zenon
<1>5. s.reference # NoText
  <2>1. CASE signer = "cli"
    BY <2>1, Zenon DEF Signs, CliSigns, SigningInputOK
  <2>2. CASE signer # "cli"
    BY <2>2, Zenon DEF Signs, JsSigns, JsSourceOK
  <2>. QED  BY <2>1, <2>2, Zenon
<1>6. DOMAIN q \subseteq PublicNames(kind)
  <2>. SUFFICES ASSUME NEW n \in DOMAIN q PROVE n \in PublicNames(kind)
    OBVIOUS
  <2>1. CASE n \in SourceNames
    <3>1. n \in {s.kind, "version"}
      <4>1. DOMAIN sq \subseteq {s.kind, "version"}
        BY ONLY <1>3, Zenon
      <4>2. n \in DOMAIN sq
        BY <2>1 DEF Agrees
      <4>. QED  BY ONLY <4>1, <4>2
    <3>. QED  BY ONLY <3>1 DEF PublicNames
  <2>2. CASE n \in {"preset"} \cup OptionNames \cup MarkNames \cup AuthNames
    BY <2>2 DEF PublicNames, MarkNames, AuthNames
  <2>. QED  BY <2>1, <2>2
<1>7. /\ WatermarkOf(wq) = w
      /\ w.url # Absent => "watermarkUrl" \in DOMAIN wq
      /\ w.url = Absent => DOMAIN wq = {}
  BY <1>1, <1>2, MarkRead
<1>8. WatermarkOf(q) = w
  <2>1. {"watermarkUrl", "watermarkPosition", "watermarkOpacity", "watermarkMargin"} \subseteq MarkNames
    BY DEF MarkNames, WatermarkNames
  <2>2. \A n \in MarkNames : \A d : Get(q, n, d) = Get(wq, n, d)
    BY AgreesGet
  <2>3. WatermarkOf(q) = WatermarkOf(wq)
    BY <2>1, <2>2 DEF WatermarkOf
  <2>. QED  BY <1>7, <2>3
<1>9. ~orphaned
  <2>1. WatermarkNames \subseteq MarkNames /\ "watermarkUrl" \in MarkNames
    BY DEF MarkNames
  <2>. HIDE DEF wq
  <2>2. \A n \in MarkNames : n \in DOMAIN q <=> n \in DOMAIN wq
    BY DEF Agrees, wq
  <2>. QED  BY ONLY <1>7, <2>1, <2>2
<1>10. \A n \in DOMAIN q \cap (OptionNames \cup WatermarkNames) : TextOK(n, q[n])
  BY TextsRead
<1>11. Get(q, "preset", Absent) = call.preset
  <2>1. PresetQuery(call.preset) = Optional("preset", call.preset, Absent)
    BY DEF PresetQuery, Optional
  <2>2. Get(PresetQuery(call.preset), "preset", Absent) = call.preset
    BY <2>1, GivenOnly
  <2>3. Get(q, "preset", Absent) = Get(PresetQuery(call.preset), "preset", Absent)
    BY AgreesGet
  <2>. QED  BY ONLY <2>2, <2>3
<1>12. resolved.status = Accepted /\ resolved.options = Meant(call)
  BY <1>11, OptionsResolved
<1>13. WatermarkStatus(w) = Accepted
  <2>1. w.url # NoText
    BY <1>2, Zenon DEF Absent, NoText
  <2>2. /\ w.position \in Positions \cup {Absent} /\ (w.opacity # None => w.opacity \in 1..100)
    BY <1>2
  <2>. DEFINE named == w.url # NoText
              ranged == w.position \in Positions \cup {Absent} /\ (w.opacity # None => w.opacity \in 1..100)
  <2>3. WatermarkStatus(w) = IF named /\ ranged THEN Accepted ELSE 400
    BY Zenon DEF WatermarkStatus
  <2>4. named /\ ranged
    BY <2>1, <2>2, Zenon
  <2>. HIDE DEF named, ranged
  <2>. QED  BY ONLY <2>3, <2>4
<1>14. ~malformed
  <2>1. source.reference # NoText
    BY <1>4, <1>5, Zenon
  <2>2. DOMAIN q \ PublicNames(kind) = {}
    BY ONLY <1>6
  <2>. HIDE DEF source, orphaned, kind
  <2>. QED  BY ONLY <1>9, <1>10, <2>1, <2>2, Zenon
<1>. DEFINE watermark == WatermarkOf(q)
            status == IF resolved.status # Accepted THEN resolved.status ELSE WatermarkStatus(watermark)
<1>15. ParsePublicGet(q, kind, config.presets) =
         IF malformed THEN Parsed(400, source, DefaultOptions, watermark)
         ELSE Parsed(status, source, resolved.options, DrawnWatermark(watermark))
  BY Zenon DEF ParsePublicGet
<1>16. status = Accepted
  <2>. HIDE DEF resolved
  <2>. QED  BY <1>8, <1>12, <1>13
<1>. HIDE DEF malformed, source, resolved, status, watermark
<1>17. ParsePublicGet(q, kind, config.presets) =
         Parsed(status, source, resolved.options, DrawnWatermark(watermark))
  BY ONLY <1>14, <1>15
<1>. QED  BY ONLY <1>4, <1>8, <1>12, <1>16, <1>17, Zenon DEF watermark

\* The query of a signed URL: the signed one, and its signature.
LEMMA IntactQuery ==
  ASSUME NEW input, CallRead(input.call), Signed(input), Intact(input)
  PROVE  LET call == input.call
             signed == SignedQuery(call, Settled(call.options))
             mac == Hmac(call.secret, Canonical(call.method, UrlAuthority(call.base),
                                                RoutePath(call.source.kind), signed))
         IN /\ input.request.query = Over(signed, One("signature", [mac |-> mac, case |-> "lower"]))
            /\ Sign(input.signer, call).query = input.request.query
            /\ input.request.method = call.method /\ input.request.path = RoutePath(call.source.kind)
            /\ ~input.request.repeated
<1>. DEFINE call == input.call
            o == call.options
<1>1. /\ o = [k \in DOMAIN DefaultOptions |-> o[k]] /\ (\A k \in FlagNames : o[k] \in BOOLEAN)
      /\ o.rotate \in (-I64Max - 1)..I64Max
  BY DEF CallRead
<1>2. JsSettled(o) = Settled(o)
  BY <1>1, SettledFacts
<1>3. Sign(input.signer, call) = SignedWith(call, Settled(o))
  BY <1>2 DEF Sign
<1>4. /\ input.request.method = Sign(input.signer, call).method
      /\ input.request.path = Sign(input.signer, call).path
      /\ input.request.query = Sign(input.signer, call).query /\ ~input.request.repeated
  BY DEF Intact
<1>. DEFINE signed == SignedQuery(call, Settled(o))
            mac == Hmac(call.secret, Canonical(call.method, UrlAuthority(call.base),
                                               RoutePath(call.source.kind), signed))
<1>5. /\ SignedWith(call, Settled(o)).method = call.method
      /\ SignedWith(call, Settled(o)).path = RoutePath(call.source.kind)
      /\ SignedWith(call, Settled(o)).query = Over(signed, One("signature", [mac |-> mac, case |-> "lower"]))
  BY DEF SignedWith
<1>. QED  BY <1>3, <1>4, <1>5

\* A URL signed with a key of the server, and fetched in time and from where it
\* was signed for, is authorized.
LEMMA SignedAuthorized ==
  ASSUME NEW c \in Configs, NEW input \in Inputs(c), NEW now \in Clock, Signed(input), Intact(input),
         now <= input.call.expires, input.call.keyId \in DOMAIN c.keys,
         c.keys[input.call.keyId] = input.call.secret,
         HostHeader(input.call.base) = IF c.publicBase.host # Absent THEN HostHeader(c.publicBase)
                                                                  ELSE input.request.host
  PROVE  /\ Signs(input.signer, input.call)
         /\ AuthorizeSigned(input.request, input.request.query, c, now) = Accepted
<1>. DEFINE request == input.request
            q == request.query
            call == input.call
            signed == SignedQuery(call, Settled(call.options))
            route == RoutePath(call.source.kind)
            text == Canonical(call.method, UrlAuthority(call.base), route, signed)
            mac == Hmac(call.secret, text)
            sig == [mac |-> mac, case |-> "lower"]
            s == One("signature", sig)
<1>1. CallRead(call) /\ Unforged(input, c.keys) /\ now \in Int
      /\ (c.publicBase.host # Absent => c.publicBase.scheme \in {"http", "https"})
  BY InputAssumption
<1>2. call.source.kind \in {"path", "url"} /\ call.expires \in Nat
  BY <1>1 DEF CallRead
<1>3. /\ q = Over(signed, s) /\ Sign(input.signer, call).query = q
      /\ request.method = call.method /\ request.path = route
  BY <1>1, IntactQuery
<1>4. /\ {"keyId", "expires"} \subseteq DOMAIN signed /\ "signature" \notin DOMAIN signed
      /\ signed["keyId"] = call.keyId /\ signed["expires"] = call.expires
  BY <1>2, SignedQueryIs
<1>5. DOMAIN s = {"signature"} /\ s["signature"] = sig
  <2>. HIDE DEF sig
  <2>. QED  BY OneDomain, OneIs
<1>6. sig.mac = mac /\ sig.case = "lower" /\ mac.secret = call.secret
  BY DEF Hmac
<1>. HIDE DEF signed, mac, sig, s, text
<1>7. DOMAIN q = DOMAIN signed \cup {"signature"}
  <2>1. DOMAIN Over(signed, s) = DOMAIN signed \cup DOMAIN s
    BY OverDomain
  <2>. QED  BY <1>3, <1>5, <2>1
<1>8. \A n \in DOMAIN signed : q[n] = signed[n]
  BY <1>3, OverFirst
<1>9. q["signature"] = sig
  <2>1. "signature" \in DOMAIN s \ DOMAIN signed
    BY <1>4, <1>5
  <2>. QED  BY <1>3, <1>5, <2>1, OverSecond
<1>10. q["signature"].mac.secret = c.keys[call.keyId]
  BY <1>6, <1>9
<1>11. Signs(input.signer, call)
  BY <1>1, <1>7, <1>10 DEF Unforged
<1>12. Without(q, {"signature"}) = Without(signed, {"signature"})
  BY <1>4, <1>7, <1>8 DEF Without
<1>13. RequestAuthority(request, c) = UrlAuthority(call.base)
  <2>1. UrlAuthority(call.base) = HostHeader(call.base)
    BY <1>11, SignersAuthority
  <2>2. CASE c.publicBase.host # Absent
    <3>1. UrlAuthority(c.publicBase) = HostHeader(c.publicBase)
      BY <1>1, <2>2, SchemeAuthority
    <3>. QED  BY <2>1, <2>2, <3>1 DEF RequestAuthority
  <2>3. CASE c.publicBase.host = Absent
    BY <2>1, <2>3 DEF RequestAuthority
  <2>. QED  BY <2>2, <2>3
<1>14. Canonical(request.method, RequestAuthority(request, c), request.path, q) = text
  BY <1>3, <1>12, <1>13 DEF Canonical, text
<1>15. q["keyId"] = call.keyId /\ q["expires"] = call.expires
  BY <1>4, <1>8
<1>16. SignatureOK(request, q, c)
  BY <1>6, <1>9, <1>14, <1>15 DEF SignatureOK, mac
<1>17. AuthParamsGiven(q)
  BY <1>4, <1>7 DEF AuthParamsGiven
<1>18. q["expires"] # Word /\ ~Expired(q["expires"], now)
  BY <1>1, <1>2, <1>15 DEF Word, Expired
<1>19. RequestAuthority(request, c).host # Absent
  BY <1>1, <1>13 DEF CallRead, UrlAuthority
<1>. HIDE DEF q
<1>20. AuthorizeSigned(request, q, c, now) = Accepted
  BY <1>15, <1>16, <1>17, <1>18, <1>19 DEF AuthorizeSigned
<1>. QED  BY <1>11, <1>20 DEF q

\* It is routed to the handler of its kind, unless the limiter is asked first.
LEMMA SignedRouted ==
  ASSUME NEW input, NEW now, NEW allowed \in BOOLEAN, NEW kind \in {"path", "url"},
         input.request.path = RoutePath(kind), input.request.method \in {"GET", "HEAD"},
         Given(input, now, allowed).status # 429
  PROVE  Given(input, now, allowed) = HandlePublicGet(input.request, kind, now)
<1>. DEFINE request == input.request
<1>1. /\ kind = "path" => request.path = "/images/by-path"
      /\ kind = "url" => request.path = "/images/by-url"
  BY DEF RoutePath
<1>2. /\ request.path \in Public /\ request.path \notin Private /\ request.path \notin Probes
      /\ request.path \notin {"/metrics", "/health"}
  BY <1>1 DEF Public, Private, Probes
<1>3. IsRateLimited(request.path) /\ request.method # "POST" /\ request.method # "OPTIONS"
  BY <1>2 DEF IsRateLimited
<1>4. CASE ~allowed
  <2>1. Early(request, allowed) = [status |-> 429, route |-> ClassifyRoute(request.path)]
    BY <1>2, <1>3, <1>4 DEF Early
  <2>2. Early(request, allowed).status = 429
    BY <2>1
  <2>3. Given(input, now, allowed) = Refusal(429)
    BY <2>2 DEF Given, Accepted
  <2>4. Refusal(429).status = 429
    BY DEF Refusal, Problem, Answer
  <2>. QED  BY <2>3, <2>4
<1>5. CASE allowed
  <2>1. Early(request, allowed) = [status |-> Accepted, route |-> "unknown"]
    BY <1>2, <1>3, <1>5 DEF Early
  <2>2. Early(request, allowed).status = Accepted
    BY <2>1
  <2>3. Given(input, now, allowed) = RouteRequest(request, now)
    BY <2>2 DEF Given
  <2>4. Known(request.path) /\ Serves(request.path, request.method)
    BY <1>2 DEF Known, Serves
  <2>5. RouteRequest(request, now) = Handle(request, now)
    BY <1>3, <2>4 DEF RouteRequest
  <2>6. Handle(request, now) = HandlePublicGet(request, kind, now)
    BY <1>1, <1>2 DEF Handle
  <2>. QED  BY <2>3, <2>5, <2>6
<1>. QED  BY <1>4, <1>5

\* A signed URL does what it was signed for: whichever signer made it, with
\* whatever prefix, port or proxy in front, a URL signed with a key of this
\* server and fetched by its expiry gets the source, the options and the
\* watermark of the call, provided the server would take them at all.
THEOREM SignedUrlsAreServed == Spec => []SignedServed
<1>1. Init => config \in Configs /\ SignedServed
  BY DEF Init, NoExchange, SignedServed
<1>2. ASSUME config \in Configs, SignedServed, [Next]_vars
      PROVE  (config \in Configs /\ SignedServed)'
  <2>1. ASSUME NEW w \in Workers, Serve(w) PROVE SignedServed' /\ config' = config
    <3>0. config' = config
      BY <2>1 DEF Serve
    <3>1. PICK input \in Inputs(config), now \in Clock, allowed \in BOOLEAN :
            /\ exchange'.input = input /\ exchange'.now = now
            /\ exchange'.answer = Given(input, now, allowed)
      BY <2>1, Served
    <3>. DEFINE call == input.call
                answer == exchange'.answer
                kind == call.source.kind
                asked == Work("signature", call.source, Meant(call), DrawnWatermark(call.watermark))
                q == input.request.query
    <3>2. ASSUME Signed(input), Intact(input), call.method \in {"GET", "HEAD"}, now <= call.expires,
                 call.keyId \in DOMAIN config.keys, config.keys[call.keyId] = call.secret,
                 HostHeader(call.base) = IF config.publicBase.host # Absent THEN HostHeader(config.publicBase)
                                                                         ELSE input.request.host,
                 call.preset # Absent => call.preset \in DOMAIN config.presets,
                 Taken(Meant(call)), answer.status # 429
          PROVE  answer.work = asked
      <4>1. CallRead(call)
        BY <1>2, InputAssumption
      <4>2. kind \in {"path", "url"}
        BY <4>1 DEF CallRead
      <4>3. /\ Signs(input.signer, call)
            /\ AuthorizeSigned(input.request, q, config, now) = Accepted
        BY <1>2, <3>2, SignedAuthorized
      <4>4. /\ input.request.method = call.method /\ input.request.path = RoutePath(kind)
            /\ ~input.request.repeated
            /\ \E s : q = Over(SignedQuery(call, Settled(call.options)), One("signature", s))
        <5>. DEFINE signed == SignedQuery(call, Settled(call.options))
                    mac == Hmac(call.secret, Canonical(call.method, UrlAuthority(call.base),
                                                       RoutePath(kind), signed))
                    s == [mac |-> mac, case |-> "lower"]
        <5>1. /\ q = Over(signed, One("signature", s))
              /\ input.request.method = call.method /\ input.request.path = RoutePath(kind)
              /\ ~input.request.repeated
          BY <3>2, <4>1, IntactQuery
        <5>. HIDE DEF s
        <5>. QED  BY <5>1
      <4>5. /\ Agrees(q, SourceQuery(call.source), SourceNames)
            /\ Agrees(q, PresetQuery(call.preset), {"preset"})
            /\ Agrees(q, TransformQuery(Settled(call.options)), OptionNames)
            /\ Agrees(q, WatermarkQuery(call.watermark), MarkNames)
            /\ DOMAIN q \subseteq SourceNames \cup {"preset"} \cup OptionNames \cup MarkNames \cup AuthNames
        BY <4>2, <4>4, SignedParts
      <4>. DEFINE parsed == Parsed(Accepted, call.source, Meant(call), DrawnWatermark(call.watermark))
      <4>6. ParsePublicGet(q, kind, config.presets) = parsed
        BY <3>2, <4>1, <4>3, <4>5, ParsedAsMeant
      <4>7. answer = HandlePublicGet(input.request, kind, now)
        BY <3>1, <3>2, <4>2, <4>4, SignedRouted
      <4>8. /\ parsed.status = Accepted /\ parsed.source = call.source /\ parsed.options = Meant(call)
            /\ parsed.watermark = DrawnWatermark(call.watermark)
        BY DEF Parsed
      <4>. HIDE DEF parsed
      <4>9. HandlePublicGet(input.request, kind, now) = PublicAnswer(input.request, parsed)
        BY <4>3, <4>4, <4>6 DEF HandlePublicGet
      <4>10. PublicAnswer(input.request, parsed) = ImageAnswer(input.request, "public", asked)
        BY <4>8 DEF PublicAnswer
      <4>. QED  BY <4>7, <4>9, <4>10, ImageWork
    <3>3. /\ asked.done /\ asked.source = call.source /\ asked.options = Meant(call)
          /\ asked.watermark = DrawnWatermark(call.watermark)
      BY DEF Work
    <3>4. Meant(call)' = Meant(call)
      BY <3>0 DEF Meant
    <3>. HIDE DEF asked
    <3>. QED  BY <3>0, <3>1, <3>2, <3>3, <3>4 DEF SignedServed
  <2>2. ASSUME NEW w \in Workers, RefuseHead(w) \/ RecordStep(w) PROVE SignedServed' /\ config' = config
    BY <2>2 DEF RefuseHead, RecordStep, NoExchange, SignedServed
  <2>3. CASE UNCHANGED vars
    BY <1>2, <2>3 DEF vars, SignedServed, Meant
  <2>. QED  BY <1>2, <2>1, <2>2, <2>3 DEF Next
<1>. QED  BY <1>1, <1>2, PTL DEF Spec

-----------------------------------------------------------------------------
(* What an upload is read as *)

Token == STRING \cup PartNames \cup {"crlf", "--", "boundary"}

\* A part of a form as a client may send it.
SentPart == [name : PartNames, type : STRING \ {"crlf"}, body : Seq(STRING)]

LEMMA StartsIs ==
  ASSUME NEW s \in Seq(Token), NEW p \in Seq(Token), NEW at \in Nat \ {0}
  PROVE  StartsWith(s, at, p) <=>
           at + Len(p) - 1 <= Len(s) /\ \A k \in 1..Len(p) : s[at + k - 1] = p[k]
<1>. DEFINE n == Len(p)
            m == at + n - 1
            t == SubSeq(s, at, m)
<1>1. /\ n \in Nat /\ Len(s) \in Nat /\ m \in Int
      /\ \A i \in 1..Len(s) : s[i] \in Token
  BY LenProperties, ElementOfSeq
<1>2. StartsWith(s, at, p) <=> m <= Len(s) /\ t = p
  BY DEF StartsWith
<1>. SUFFICES ASSUME m <= Len(s) PROVE t = p <=> \A k \in 1..n : s[at + k - 1] = p[k]
  BY <1>2
<1>. HIDE DEF n
<1>3. \A i \in at..m : s[i] \in Token
  BY <1>1
<1>4. /\ t \in Seq(Token) /\ Len(t) = (IF at <= m THEN m - at + 1 ELSE 0)
      /\ \A i \in 1..(m - at + 1) : t[i] = s[at + i - 1]
  <2>. HIDE DEF m
  <2>. QED  BY <1>1, <1>3, SubSeqProperties
<1>5. Len(t) = n /\ \A i \in 1..n : t[i] = s[at + i - 1]
  BY <1>1, <1>4
<1>. HIDE DEF t, m
<1>6. ASSUME \A k \in 1..n : s[at + k - 1] = p[k] PROVE t = p
  <2>1. Len(t) = Len(p) /\ \A i \in 1..Len(t) : t[i] = p[i]
    BY <1>5, <1>6 DEF n
  <2>. QED  BY <1>4, <2>1, SeqEqual
<1>. QED  BY <1>5, <1>6

\* The texts the parser looks for.
LEMMA Texts ==
  /\ Opening \in Seq(Token) /\ Len(Opening) = 2 /\ Opening[1] = "--" /\ Opening[2] = "boundary"
  /\ \A x \in Token : <<x>> \in Seq(Token) /\ Len(<<x>>) = 1 /\ <<x>>[1] = x
  /\ \A x, y \in Token : <<x, y>> \in Seq(Token) /\ Len(<<x, y>>) = 2 /\ <<x, y>>[1] = x /\ <<x, y>>[2] = y
  /\ Delimiter \in Seq(Token) /\ Len(Delimiter) = 3
  /\ Delimiter[1] = "crlf" /\ Delimiter[2] = "--" /\ Delimiter[3] = "boundary"
  /\ \A x \in Token : LET d == Delimiter \o <<x>> IN
       /\ d \in Seq(Token) /\ Len(d) = 4
       /\ d[1] = "crlf" /\ d[2] = "--" /\ d[3] = "boundary" /\ d[4] = x
<1>1. \A x \in Token : <<x>> \in Seq(Token) /\ Len(<<x>>) = 1 /\ <<x>>[1] = x
  OBVIOUS
<1>2. \A x, y \in Token : <<x, y>> \in Seq(Token) /\ Len(<<x, y>>) = 2 /\ <<x, y>>[1] = x /\ <<x, y>>[2] = y
  OBVIOUS
<1>3. Opening \in Seq(Token) /\ Len(Opening) = 2 /\ Opening[1] = "--" /\ Opening[2] = "boundary"
  <2>1. "--" \in Token /\ "boundary" \in Token
    BY DEF Token
  <2>. QED  BY <1>2, <2>1 DEF Opening
<1>4. /\ Delimiter \in Seq(Token) /\ Len(Delimiter) = 3
      /\ Delimiter[1] = "crlf" /\ Delimiter[2] = "--" /\ Delimiter[3] = "boundary"
  <2>. DEFINE c == <<"crlf">>
  <2>1. c \in Seq(Token) /\ Len(c) = 1 /\ c[1] = "crlf"
    BY <1>1 DEF Token
  <2>2. Delimiter = c \o Opening
    BY DEF Delimiter
  <2>. HIDE DEF c
  <2>3. /\ c \o Opening \in Seq(Token) /\ Len(c \o Opening) = Len(c) + Len(Opening)
        /\ \A i \in 1..(Len(c) + Len(Opening)) :
             (c \o Opening)[i] = IF i <= Len(c) THEN c[i] ELSE Opening[i - Len(c)]
    BY <1>3, <2>1, ConcatProperties
  <2>. DEFINE d == c \o Opening
  <2>. HIDE DEF d
  <2>4. d[1] = c[1] /\ d[2] = Opening[1] /\ d[3] = Opening[2] /\ Len(d) = 3 /\ d \in Seq(Token)
    BY ONLY <1>3, <2>1, <2>3 DEF d
  <2>. QED  BY ONLY <1>3, <2>1, <2>2, <2>4 DEF d
<1>5. ASSUME NEW x \in Token
      PROVE  LET d == Delimiter \o <<x>> IN
               /\ d \in Seq(Token) /\ Len(d) = 4
               /\ d[1] = "crlf" /\ d[2] = "--" /\ d[3] = "boundary" /\ d[4] = x
  <2>. DEFINE c == <<x>>
              d == Delimiter \o c
  <2>1. c \in Seq(Token) /\ Len(c) = 1 /\ c[1] = x
    BY <1>1
  <2>. HIDE DEF c
  <2>2. /\ d \in Seq(Token) /\ Len(d) = Len(Delimiter) + Len(c)
        /\ \A i \in 1..(Len(Delimiter) + Len(c)) :
             d[i] = IF i <= Len(Delimiter) THEN Delimiter[i] ELSE c[i - Len(Delimiter)]
    BY <1>4, <2>1, ConcatProperties
  <2>. HIDE DEF d
  <2>3. d[1] = Delimiter[1] /\ d[2] = Delimiter[2] /\ d[3] = Delimiter[3] /\ d[4] = c[1] /\ Len(d) = 4
    BY ONLY <1>4, <2>1, <2>2
  <2>. QED  BY <1>4, <2>1, <2>2, <2>3 DEF d, c
<1>. QED  BY <1>1, <1>2, <1>3, <1>4, <1>5

\* What they look like in a body.
LEMMA Looks ==
  ASSUME NEW s \in Seq(Token), NEW at \in Nat \ {0}
  PROVE  /\ \A x \in Token : StartsWith(s, at, <<x>>) <=> at <= Len(s) /\ s[at] = x
         /\ \A x, y \in Token : StartsWith(s, at, <<x, y>>) <=> at + 1 <= Len(s) /\ s[at] = x /\ s[at + 1] = y
         /\ StartsWith(s, at, Opening) <=> at + 1 <= Len(s) /\ s[at] = "--" /\ s[at + 1] = "boundary"
         /\ StartsWith(s, at, Delimiter) <=>
              at + 2 <= Len(s) /\ s[at] = "crlf" /\ s[at + 1] = "--" /\ s[at + 2] = "boundary"
         /\ \A x \in Token : StartsWith(s, at, Delimiter \o <<x>>) <=>
              at + 3 <= Len(s) /\ s[at] = "crlf" /\ s[at + 1] = "--" /\ s[at + 2] = "boundary" /\ s[at + 3] = x
<1>0. Len(s) \in Nat
  BY LenProperties
<1>1. ASSUME NEW p \in Seq(Token), Len(p) = 1
      PROVE  StartsWith(s, at, p) <=> at <= Len(s) /\ s[at] = p[1]
  <2>. DEFINE same(k) == s[at + k - 1] = p[k]
  <2>1. StartsWith(s, at, p) <=> at + Len(p) - 1 <= Len(s) /\ \A k \in 1..Len(p) : same(k)
    BY StartsIs
  <2>2. (same(1) <=> s[at] = p[1])
    <3>1. at + 1 - 1 = at
      OBVIOUS
    <3>. QED  BY ONLY <3>1
  <2>. HIDE DEF same
  <2>3. (\A k \in 1..1 : same(k)) <=> same(1)
    OBVIOUS
  <2>. QED  BY ONLY <1>0, <1>1, <2>1, <2>2, <2>3, at \in Nat
<1>2. ASSUME NEW p \in Seq(Token), Len(p) = 2
      PROVE  StartsWith(s, at, p) <=> at + 1 <= Len(s) /\ s[at] = p[1] /\ s[at + 1] = p[2]
  <2>. DEFINE same(k) == s[at + k - 1] = p[k]
  <2>1. StartsWith(s, at, p) <=> at + Len(p) - 1 <= Len(s) /\ \A k \in 1..Len(p) : same(k)
    BY StartsIs
  <2>2. (same(1) <=> s[at] = p[1]) /\ (same(2) <=> s[at + 1] = p[2])
    <3>1. at + 1 - 1 = at /\ at + 2 - 1 = at + 1
      OBVIOUS
    <3>. QED  BY ONLY <3>1
  <2>. HIDE DEF same
  <2>3. (\A k \in 1..2 : same(k)) <=> same(1) /\ same(2)
    OBVIOUS
  <2>. QED  BY ONLY <1>0, <1>2, <2>1, <2>2, <2>3, at \in Nat
<1>3. ASSUME NEW p \in Seq(Token), Len(p) = 3
      PROVE  StartsWith(s, at, p) <=> at + 2 <= Len(s) /\ s[at] = p[1] /\ s[at + 1] = p[2] /\ s[at + 2] = p[3]
  <2>. DEFINE same(k) == s[at + k - 1] = p[k]
  <2>1. StartsWith(s, at, p) <=> at + Len(p) - 1 <= Len(s) /\ \A k \in 1..Len(p) : same(k)
    BY StartsIs
  <2>2. (same(1) <=> s[at] = p[1]) /\ (same(2) <=> s[at + 1] = p[2]) /\ (same(3) <=> s[at + 2] = p[3])
    <3>1. at + 1 - 1 = at /\ at + 2 - 1 = at + 1 /\ at + 3 - 1 = at + 2
      OBVIOUS
    <3>. QED  BY ONLY <3>1
  <2>. HIDE DEF same
  <2>3. (\A k \in 1..3 : same(k)) <=> same(1) /\ same(2) /\ same(3)
    OBVIOUS
  <2>. QED  BY ONLY <1>0, <1>3, <2>1, <2>2, <2>3, at \in Nat
<1>4. ASSUME NEW p \in Seq(Token), Len(p) = 4
      PROVE  StartsWith(s, at, p) <=>
               at + 3 <= Len(s) /\ s[at] = p[1] /\ s[at + 1] = p[2] /\ s[at + 2] = p[3] /\ s[at + 3] = p[4]
  <2>. DEFINE same(k) == s[at + k - 1] = p[k]
  <2>1. StartsWith(s, at, p) <=> at + Len(p) - 1 <= Len(s) /\ \A k \in 1..Len(p) : same(k)
    BY StartsIs
  <2>2. (same(1) <=> s[at] = p[1]) /\ (same(2) <=> s[at + 1] = p[2]) /\ (same(3) <=> s[at + 2] = p[3]) /\ (same(4) <=> s[at + 3] = p[4])
    <3>1. at + 1 - 1 = at /\ at + 2 - 1 = at + 1 /\ at + 3 - 1 = at + 2 /\ at + 4 - 1 = at + 3
      OBVIOUS
    <3>. QED  BY ONLY <3>1
  <2>. HIDE DEF same
  <2>3. (\A k \in 1..4 : same(k)) <=> same(1) /\ same(2) /\ same(3) /\ same(4)
    OBVIOUS
  <2>4. at + Len(p) - 1 = at + 3 /\ 1..Len(p) = 1..4
    BY <1>4
  <2>5. StartsWith(s, at, p) <=> at + 3 <= Len(s) /\ same(1) /\ same(2) /\ same(3) /\ same(4)
    BY ONLY <2>1, <2>3, <2>4
  <2>. QED  BY ONLY <2>2, <2>5, Zenon
<1>5. \A x \in Token : StartsWith(s, at, <<x>>) <=> at <= Len(s) /\ s[at] = x
  <2>. SUFFICES ASSUME NEW x \in Token PROVE StartsWith(s, at, <<x>>) <=> at <= Len(s) /\ s[at] = x
    BY Zenon
  <2>. DEFINE p == <<x>>
  <2>1. p \in Seq(Token) /\ Len(p) = 1 /\ p[1] = x
    BY Texts
  <2>. HIDE DEF p
  <2>2. StartsWith(s, at, p) <=> at <= Len(s) /\ s[at] = p[1]
    BY <1>1, <2>1
  <2>. QED  BY ONLY <2>1, <2>2 DEF p
<1>6. \A x, y \in Token : StartsWith(s, at, <<x, y>>) <=> at + 1 <= Len(s) /\ s[at] = x /\ s[at + 1] = y
  <2>. SUFFICES ASSUME NEW x \in Token, NEW y \in Token
                PROVE  StartsWith(s, at, <<x, y>>) <=> at + 1 <= Len(s) /\ s[at] = x /\ s[at + 1] = y
    BY Zenon
  <2>. DEFINE p == <<x, y>>
  <2>1. p \in Seq(Token) /\ Len(p) = 2 /\ p[1] = x /\ p[2] = y
    BY Texts
  <2>. HIDE DEF p
  <2>2. StartsWith(s, at, p) <=> at + 1 <= Len(s) /\ s[at] = p[1] /\ s[at + 1] = p[2]
    BY <1>2, <2>1
  <2>. QED  BY ONLY <2>1, <2>2 DEF p
<1>7. StartsWith(s, at, Opening) <=> at + 1 <= Len(s) /\ s[at] = "--" /\ s[at + 1] = "boundary"
  BY <1>2, Texts
<1>8. StartsWith(s, at, Delimiter) <=>
        at + 2 <= Len(s) /\ s[at] = "crlf" /\ s[at + 1] = "--" /\ s[at + 2] = "boundary"
  BY <1>3, Texts
<1>9. \A x \in Token : StartsWith(s, at, Delimiter \o <<x>>) <=>
        at + 3 <= Len(s) /\ s[at] = "crlf" /\ s[at + 1] = "--" /\ s[at + 2] = "boundary" /\ s[at + 3] = x
  <2>. SUFFICES ASSUME NEW x \in Token
                PROVE  StartsWith(s, at, Delimiter \o <<x>>) <=> /\ at + 3 <= Len(s) /\ s[at] = "crlf"
                         /\ s[at + 1] = "--" /\ s[at + 2] = "boundary" /\ s[at + 3] = x
    BY Zenon
  <2>. DEFINE p == Delimiter \o <<x>>
  <2>1. /\ p \in Seq(Token) /\ Len(p) = 4
        /\ p[1] = "crlf" /\ p[2] = "--" /\ p[3] = "boundary" /\ p[4] = x
    BY Texts
  <2>. HIDE DEF p
  <2>2. StartsWith(s, at, p) <=>
          at + 3 <= Len(s) /\ s[at] = p[1] /\ s[at + 1] = p[2] /\ s[at + 2] = p[3] /\ s[at + 3] = p[4]
    BY <1>4, <2>1
  <2>. QED  BY ONLY <2>1, <2>2 DEF p
<1>. QED  BY ONLY <1>5, <1>6, <1>7, <1>8, <1>9

\* Joining two sequences, in places.
LEMMA Joined ==
  ASSUME NEW f \in Seq(Token), NEW g \in Seq(Token)
  PROVE  /\ f \o g \in Seq(Token) /\ Len(f) \in Nat /\ Len(g) \in Nat /\ Len(f \o g) = Len(f) + Len(g)
         /\ \A i \in 1..Len(f) : (f \o g)[i] = f[i]
         /\ \A i \in 1..Len(g) : (f \o g)[Len(f) + i] = g[i]
<1>1. Len(f) \in Nat /\ Len(g) \in Nat
  BY LenProperties
<1>2. /\ f \o g \in Seq(Token) /\ Len(f \o g) = Len(f) + Len(g)
      /\ \A i \in 1..(Len(f) + Len(g)) : (f \o g)[i] = IF i <= Len(f) THEN f[i] ELSE g[i - Len(f)]
  BY ConcatProperties
<1>3. \A i \in 1..Len(f) : (f \o g)[i] = f[i]
  BY ONLY <1>1, <1>2
<1>4. ASSUME NEW i \in 1..Len(g) PROVE (f \o g)[Len(f) + i] = g[i]
  <2>1. Len(f) + i \in 1..(Len(f) + Len(g)) /\ ~(Len(f) + i <= Len(f)) /\ Len(f) + i - Len(f) = i
    BY ONLY <1>1, <1>4
  <2>. QED  BY ONLY <1>2, <2>1
<1>. QED  BY ONLY <1>1, <1>2, <1>3, <1>4

\* The lines of a part's headers.
HeaderLines(p) == IF p.type = Absent THEN <<p.name>> ELSE <<p.name, "crlf", p.type>>

LEMMA HeaderLinesAre ==
  ASSUME NEW p \in SentPart
  PROVE  LET h == HeaderLines(p) IN
         /\ h \in Seq(Token) /\ Len(h) = (IF p.type = Absent THEN 1 ELSE 3) /\ h[1] = p.name
         /\ p.type # Absent => h[2] = "crlf" /\ h[3] = p.type
         /\ p.name # "crlf" /\ p.type # "crlf" /\ p.name \in PartNames
<1>1. p.name \in PartNames /\ p.type \in STRING /\ p.type # "crlf"
  BY DEF SentPart
<1>2. p.name \in Token /\ p.name # "crlf"
  <2>1. "crlf" \notin PartNames
    BY DEF PartNames
  <2>. QED  BY <1>1, <2>1 DEF Token
<1>3. p.type \in Token /\ "crlf" \in Token
  BY <1>1 DEF Token
<1>4. CASE p.type = Absent
  <2>1. HeaderLines(p) = <<p.name>>
    BY <1>4 DEF HeaderLines
  <2>. QED  BY <1>1, <1>2, <1>4, <2>1
<1>5. CASE p.type # Absent
  <2>1. HeaderLines(p) = <<p.name, "crlf", p.type>>
    BY <1>5 DEF HeaderLines
  <2>. QED  BY <1>1, <1>2, <1>3, <1>5, <2>1
<1>. QED  BY <1>4, <1>5

\* A part as a client writes it, place by place.
LEMMA EncodedIs ==
  ASSUME NEW p \in SentPart
  PROVE  LET e == EncodedPart(p)
             h == HeaderLines(p)
             n == Len(h)
             b == Len(p.body)
         IN /\ e \in Seq(Token) /\ n \in Nat /\ b \in Nat /\ Len(e) = n + b + 6
            /\ e[1] = "--" /\ e[2] = "boundary" /\ e[3] = "crlf"
            /\ \A i \in 1..n : e[3 + i] = h[i]
            /\ e[n + 4] = "crlf" /\ e[n + 5] = "crlf"
            /\ \A i \in 1..b : e[n + 5 + i] = p.body[i]
            /\ e[n + b + 6] = "crlf"
<1>. DEFINE h == HeaderLines(p)
            n == Len(h)
            b == Len(p.body)
            c == <<"crlf">>
            cc == <<"crlf", "crlf">>
            e1 == Opening \o c
            e2 == e1 \o h
            e3 == e2 \o cc
            e4 == e3 \o p.body
            e5 == e4 \o c
<1>1. EncodedPart(p) = e5
  BY DEF EncodedPart, HeaderLines
<1>2. "crlf" \in Token
  BY DEF Token
<1>3. c \in Seq(Token) /\ Len(c) = 1 /\ c[1] = "crlf"
  BY <1>2, Texts
<1>4. cc \in Seq(Token) /\ Len(cc) = 2 /\ cc[1] = "crlf" /\ cc[2] = "crlf"
  BY <1>2, Texts
<1>5. h \in Seq(Token) /\ n \in Nat
  BY HeaderLinesAre, LenProperties
<1>6. p.body \in Seq(Token) /\ b \in Nat
  <2>1. p.body \in Seq(STRING)
    BY DEF SentPart
  <2>2. STRING \subseteq Token
    BY DEF Token
  <2>3. p.body \in Seq(Token)
    BY <2>1, <2>2, SeqMonotonic
  <2>. QED  BY <2>3, LenProperties
<1>7. Opening \in Seq(Token) /\ Len(Opening) = 2 /\ Opening[1] = "--" /\ Opening[2] = "boundary"
  BY Texts
<1>. HIDE DEF c, cc, h
<1>8. /\ e1 \in Seq(Token) /\ Len(e1) = 3
      /\ e1[1] = "--" /\ e1[2] = "boundary" /\ e1[3] = "crlf"
  <2>1. /\ e1 \in Seq(Token) /\ Len(e1) = Len(Opening) + Len(c)
        /\ \A i \in 1..Len(Opening) : e1[i] = Opening[i]
        /\ \A i \in 1..Len(c) : e1[Len(Opening) + i] = c[i]
    BY <1>3, <1>7, Joined
  <2>. HIDE DEF e1
  <2>2. e1[1] = Opening[1] /\ e1[2] = Opening[2] /\ e1[2 + 1] = c[1]
    BY ONLY <1>3, <1>7, <2>1
  <2>. QED  BY ONLY <1>3, <1>7, <2>1, <2>2
<1>. HIDE DEF e1
<1>9. /\ e2 \in Seq(Token) /\ Len(e2) = 3 + n
      /\ \A i \in 1..3 : e2[i] = e1[i]
      /\ \A i \in 1..n : e2[3 + i] = h[i]
  <2>. HIDE DEF n
  <2>1. /\ e2 \in Seq(Token) /\ Len(e2) = Len(e1) + Len(h)
        /\ \A i \in 1..Len(e1) : e2[i] = e1[i]
        /\ \A i \in 1..Len(h) : e2[Len(e1) + i] = h[i]
    BY <1>5, <1>8, Joined
  <2>. HIDE DEF e2
  <2>. QED  BY ONLY <1>8, <2>1 DEF n
<1>. HIDE DEF e2, n
<1>10. /\ e3 \in Seq(Token) /\ Len(e3) = n + 5
       /\ \A i \in 1..(3 + n) : e3[i] = e2[i]
       /\ e3[n + 4] = "crlf" /\ e3[n + 5] = "crlf"
  <2>1. /\ e3 \in Seq(Token) /\ Len(e3) = Len(e2) + Len(cc)
        /\ \A i \in 1..Len(e2) : e3[i] = e2[i]
        /\ \A i \in 1..Len(cc) : e3[Len(e2) + i] = cc[i]
    BY <1>4, <1>9, Joined
  <2>. HIDE DEF e3
  <2>2. e3[Len(e2) + 1] = cc[1] /\ e3[Len(e2) + 2] = cc[2]
    BY ONLY <1>4, <2>1
  <2>3. Len(e2) + 1 = n + 4 /\ Len(e2) + 2 = n + 5 /\ Len(e2) + Len(cc) = n + 5
    BY ONLY <1>4, <1>5, <1>9
  <2>. QED  BY ONLY <1>4, <1>9, <2>1, <2>2, <2>3
<1>. HIDE DEF e3
<1>11. /\ e4 \in Seq(Token) /\ Len(e4) = n + b + 5
       /\ \A i \in 1..(n + 5) : e4[i] = e3[i]
       /\ \A i \in 1..b : e4[n + 5 + i] = p.body[i]
  <2>1. /\ e4 \in Seq(Token) /\ Len(e4) = Len(e3) + Len(p.body)
        /\ \A i \in 1..Len(e3) : e4[i] = e3[i]
        /\ \A i \in 1..Len(p.body) : e4[Len(e3) + i] = p.body[i]
    BY <1>6, <1>10, Joined
  <2>. HIDE DEF e4, b
  <2>2. Len(p.body) = b
    BY DEF b
  <2>. QED  BY ONLY <1>5, <1>6, <1>10, <2>1, <2>2
<1>. HIDE DEF e4, b
<1>12. /\ e5 \in Seq(Token) /\ Len(e5) = n + b + 6
       /\ \A i \in 1..(n + b + 5) : e5[i] = e4[i]
       /\ e5[n + b + 6] = "crlf"
  <2>1. /\ e5 \in Seq(Token) /\ Len(e5) = Len(e4) + Len(c)
        /\ \A i \in 1..Len(e4) : e5[i] = e4[i]
        /\ \A i \in 1..Len(c) : e5[Len(e4) + i] = c[i]
    BY <1>3, <1>11, Joined
  <2>. HIDE DEF e5
  <2>2. e5[Len(e4) + 1] = c[1]
    BY ONLY <1>3, <2>1
  <2>3. Len(e4) + 1 = n + b + 6
    BY ONLY <1>5, <1>6, <1>11
  <2>. QED  BY ONLY <1>3, <1>11, <2>1, <2>2, <2>3
<1>. HIDE DEF e5
<1>13. \A i \in 1..(n + 3) : e5[i] = e2[i]
  BY ONLY <1>5, <1>6, <1>10, <1>11, <1>12
<1>14. e5[1] = e1[1] /\ e5[2] = e1[2] /\ e5[3] = e1[3] /\ \A i \in 1..n : e5[3 + i] = h[i]
  BY ONLY <1>5, <1>9, <1>13
<1>15. e5[n + 4] = e3[n + 4] /\ e5[n + 5] = e3[n + 5] /\ \A i \in 1..b : e5[n + 5 + i] = e4[n + 5 + i]
  BY ONLY <1>5, <1>6, <1>11, <1>12
<1>16. \A i \in 1..b : e5[n + 5 + i] = p.body[i]
  BY ONLY <1>11, <1>15
<1>17. /\ e5 \in Seq(Token) /\ n \in Nat /\ b \in Nat /\ Len(e5) = n + b + 6
       /\ e5[1] = "--" /\ e5[2] = "boundary" /\ e5[3] = "crlf"
       /\ \A i \in 1..n : e5[3 + i] = h[i]
       /\ e5[n + 4] = "crlf" /\ e5[n + 5] = "crlf"
       /\ \A i \in 1..b : e5[n + 5 + i] = p.body[i]
       /\ e5[n + b + 6] = "crlf"
  BY ONLY <1>5, <1>6, <1>8, <1>10, <1>12, <1>14, <1>15, <1>16
<1>. QED  BY ONLY <1>1, <1>17 DEF n, b, h

\* The first place of a search.
LEMMA FirstOfIs ==
  ASSUME NEW P \in SUBSET Int, NEW m \in P, \A q \in P : m <= q PROVE FirstOf(P) = m
<1>1. (CHOOSE p \in P : \A q \in P : p <= q) = m
  BY First
<1>. QED  BY <1>1 DEF FirstOf

\* Where a part lies in a body.
Lies(s, c, p) ==
  LET h == HeaderLines(p)
      n == Len(h)
      b == Len(p.body)
  IN /\ s[c] = "--" /\ s[c + 1] = "boundary" /\ s[c + 2] = "crlf"
     /\ \A i \in 1..n : s[c + 2 + i] = h[i]
     /\ s[c + n + 3] = "crlf" /\ s[c + n + 4] = "crlf"
     /\ \A i \in 1..b : s[c + n + 4 + i] = p.body[i]
     /\ s[c + n + b + 5] = "crlf"
     /\ c + n + b + 5 <= Len(s)

LEMMA PartLies ==
  ASSUME NEW s \in Seq(Token), NEW p \in SentPart, NEW c \in Nat \ {0}, StartsWith(s, c, EncodedPart(p))
  PROVE  /\ Lies(s, c, p) /\ Len(HeaderLines(p)) \in Nat /\ Len(p.body) \in Nat
         /\ c + Len(EncodedPart(p)) = c + Len(HeaderLines(p)) + Len(p.body) + 6
<1>. DEFINE e == EncodedPart(p)
            h == HeaderLines(p)
            n == Len(h)
            b == Len(p.body)
<1>1. /\ e \in Seq(Token) /\ n \in Nat /\ b \in Nat /\ Len(e) = n + b + 6
      /\ e[1] = "--" /\ e[2] = "boundary" /\ e[3] = "crlf"
      /\ \A i \in 1..n : e[3 + i] = h[i]
      /\ e[n + 4] = "crlf" /\ e[n + 5] = "crlf"
      /\ \A i \in 1..b : e[n + 5 + i] = p.body[i]
      /\ e[n + b + 6] = "crlf"
  BY EncodedIs
<1>2. c + Len(e) - 1 <= Len(s) /\ \A k \in 1..Len(e) : s[c + k - 1] = e[k]
  BY <1>1, StartsIs
<1>3. c \in Nat
  OBVIOUS
<1>. HIDE DEF e, n, b, h
<1>4. ASSUME NEW k \in 1..(n + b + 6), NEW j, j = c + k - 1 PROVE s[j] = e[k]
  BY ONLY <1>1, <1>2, <1>4
<1>5. s[c] = "--" /\ s[c + 1] = "boundary" /\ s[c + 2] = "crlf"
  <2>1. s[c] = e[1]
    <3>1. 1 \in 1..(n + b + 6) /\ c = c + 1 - 1
      BY ONLY <1>1, <1>3
    <3>. QED  BY ONLY <1>4, <3>1
  <2>2. s[c + 1] = e[2]
    <3>1. 2 \in 1..(n + b + 6) /\ c + 1 = c + 2 - 1
      BY ONLY <1>1, <1>3
    <3>. QED  BY ONLY <1>4, <3>1
  <2>3. s[c + 2] = e[3]
    <3>1. 3 \in 1..(n + b + 6) /\ c + 2 = c + 3 - 1
      BY ONLY <1>1, <1>3
    <3>. QED  BY ONLY <1>4, <3>1
  <2>. QED  BY ONLY <1>1, <2>1, <2>2, <2>3
<1>6. ASSUME NEW i \in 1..n PROVE s[c + 2 + i] = h[i]
  <2>1. s[c + 2 + i] = e[3 + i]
    <3>1. 3 + i \in 1..(n + b + 6) /\ c + 2 + i = c + (3 + i) - 1
      BY ONLY <1>1, <1>3, <1>6
    <3>. QED  BY ONLY <1>4, <3>1
  <2>. QED  BY ONLY <1>1, <1>6, <2>1
<1>7. s[c + n + 3] = "crlf" /\ s[c + n + 4] = "crlf" /\ s[c + n + b + 5] = "crlf"
  <2>1. s[c + n + 3] = e[n + 4]
    <3>1. n + 4 \in 1..(n + b + 6) /\ c + n + 3 = c + (n + 4) - 1
      BY ONLY <1>1, <1>3
    <3>. QED  BY ONLY <1>4, <3>1
  <2>2. s[c + n + 4] = e[n + 5]
    <3>1. n + 5 \in 1..(n + b + 6) /\ c + n + 4 = c + (n + 5) - 1
      BY ONLY <1>1, <1>3
    <3>. QED  BY ONLY <1>4, <3>1
  <2>3. s[c + n + b + 5] = e[n + b + 6]
    <3>1. n + b + 6 \in 1..(n + b + 6) /\ c + n + b + 5 = c + (n + b + 6) - 1
      BY ONLY <1>1, <1>3
    <3>. QED  BY ONLY <1>4, <3>1
  <2>. QED  BY ONLY <1>1, <2>1, <2>2, <2>3
<1>8. ASSUME NEW i \in 1..b PROVE s[c + n + 4 + i] = p.body[i]
  <2>1. s[c + n + 4 + i] = e[n + 5 + i]
    <3>1. n + 5 + i \in 1..(n + b + 6) /\ c + n + 4 + i = c + (n + 5 + i) - 1
      BY ONLY <1>1, <1>3, <1>8
    <3>. QED  BY ONLY <1>4, <3>1
  <2>. QED  BY ONLY <1>1, <1>8, <2>1
<1>9. c + Len(e) = c + n + b + 6 /\ c + n + b + 5 <= Len(s)
  BY ONLY <1>1, <1>2, <1>3
<1>10. Lies(s, c, p)
  BY ONLY <1>5, <1>6, <1>7, <1>8, <1>9 DEF Lies, n, b, h
<1>. QED  BY ONLY <1>1, <1>9, <1>10 DEF e, n, b, h

\* Its headers are found,
LEMMA HeadFound ==
  ASSUME NEW s \in Seq(Token), NEW p \in SentPart, NEW c \in Nat \ {0}, Lies(s, c, p)
  PROVE  /\ HeadEnd(s, c) = c + Len(HeaderLines(p)) + 3
         /\ PartHeaders(s, c) = HeaderLines(p)
<1>. DEFINE h == HeaderLines(p)
            n == Len(h)
            b == Len(p.body)
            P == {q \in (c + 3)..Len(s) : StartsWith(s, q, <<"crlf", "crlf">>)}
            m == c + n + 3
<1>1. /\ h \in Seq(Token) /\ n = (IF p.type = Absent THEN 1 ELSE 3) /\ h[1] # "crlf"
      /\ p.type # Absent => h[3] # "crlf"
  BY HeaderLinesAre
<1>2. /\ \A i \in 1..n : s[c + 2 + i] = h[i]
      /\ s[c + n + 3] = "crlf" /\ s[c + n + 4] = "crlf"
      /\ c + n + b + 5 <= Len(s)
  BY DEF Lies
<1>3. n \in {1, 3} /\ n \in Nat /\ b \in Nat /\ c \in Nat /\ Len(s) \in Nat
  <2>1. b \in Nat
    <3>1. p.body \in Seq(STRING)
      BY DEF SentPart
    <3>. QED  BY <3>1, LenProperties
  <2>2. Len(s) \in Nat
    BY LenProperties
  <2>. QED  BY ONLY <1>1, <2>1, <2>2, c \in Nat
<1>4. \A q \in Nat \ {0} : StartsWith(s, q, <<"crlf", "crlf">>) <=>
        q + 1 <= Len(s) /\ s[q] = "crlf" /\ s[q + 1] = "crlf"
  <2>1. "crlf" \in Token
    BY DEF Token
  <2>. SUFFICES ASSUME NEW q \in Nat \ {0}
                PROVE  StartsWith(s, q, <<"crlf", "crlf">>) <=>
                         q + 1 <= Len(s) /\ s[q] = "crlf" /\ s[q + 1] = "crlf"
    BY Zenon
  <2>. QED  BY <2>1, Looks
<1>5. HeadEnd(s, c) = FirstOf(P)
  BY DEF HeadEnd, FindSubslice
<1>. HIDE DEF h, n, b
<1>6. m \in P
  <2>1. m \in (c + 3)..Len(s) /\ m \in Nat \ {0} /\ m + 1 <= Len(s) /\ m + 1 = c + n + 4
    BY ONLY <1>2, <1>3
  <2>2. StartsWith(s, m, <<"crlf", "crlf">>)
    BY ONLY <1>2, <1>4, <2>1
  <2>. QED  BY ONLY <2>1, <2>2
<1>7. ASSUME NEW q \in P, q < m PROVE FALSE
  <2>1. q \in (c + 3)..Len(s) /\ q \in Nat \ {0}
    BY ONLY <1>3, <1>7
  <2>2. StartsWith(s, q, <<"crlf", "crlf">>)
    BY ONLY <1>7
  <2>3. s[q] = "crlf" /\ s[q + 1] = "crlf"
    BY ONLY <1>4, <2>1, <2>2
  <2>. HIDE DEF P
  <2>4. CASE n = 1
    <3>1. q = c + 3 /\ c + 3 = c + 2 + 1
      BY ONLY <1>3, <1>7, <2>1, <2>4
    <3>2. s[c + 2 + 1] = h[1]
      BY ONLY <1>2, <2>4
    <3>. QED  BY ONLY <1>1, <2>3, <3>1, <3>2
  <2>5. CASE n = 3
    <3>1. s[c + 2 + 1] = h[1] /\ s[c + 2 + 3] = h[3]
      BY ONLY <1>2, <2>5
    <3>2. h[3] # "crlf"
      BY ONLY <1>1, <2>5
    <3>3. \/ q = c + 2 + 1
          \/ q + 1 = c + 2 + 3
          \/ q = c + 2 + 3
      BY ONLY <1>3, <1>7, <2>1, <2>5
    <3>. QED  BY ONLY <1>1, <2>3, <3>1, <3>2, <3>3
  <2>. QED  BY ONLY <1>3, <2>4, <2>5
<1>8. FirstOf(P) = m
  <2>1. P \in SUBSET Int /\ m \in Int
    BY ONLY <1>3
  <2>. HIDE DEF P, m
  <2>2. \A q \in P : m <= q
    BY ONLY <1>7, <2>1
  <2>. QED  BY ONLY <1>6, <2>1, <2>2, FirstOfIs
<1>. HIDE DEF P
<1>9. HeadEnd(s, c) = m
  BY ONLY <1>5, <1>8
<1>10. SubSeq(s, c + 3, c + 3 + n - 1) = h
  <2>1. c + 3 \in Nat \ {0} /\ c + 3 + n - 1 <= Len(s)
    BY ONLY <1>2, <1>3
  <2>2. ASSUME NEW k \in 1..n PROVE s[c + 3 + k - 1] = h[k]
    <3>1. c + 3 + k - 1 = c + 2 + k
      BY ONLY <1>3, <2>2
    <3>. QED  BY ONLY <1>2, <2>2, <3>1
  <2>3. StartsWith(s, c + 3, h)
    BY <1>1, <2>1, <2>2, StartsIs DEF n
  <2>. QED  BY <2>3 DEF StartsWith, n
<1>11. PartHeaders(s, c) = h
  <2>1. m - 1 = c + 3 + n - 1
    BY ONLY <1>3
  <2>. QED  BY ONLY <1>9, <1>10, <2>1 DEF PartHeaders
<1>. QED  BY ONLY <1>9, <1>11 DEF n, h

\* and its body, which a boundary follows and which holds none that counts.
LEMMA BodyFound ==
  ASSUME NEW s \in Seq(Token), NEW p \in SentPart, NEW c \in Nat \ {0}, Lies(s, c, p), Unambiguous(p),
         NEW d \in Nat, d = c + Len(HeaderLines(p)) + Len(p.body) + 6, d + 2 <= Len(s),
         s[d] = "--", s[d + 1] = "boundary", s[d + 2] \in {"crlf", "--"}
  PROVE  /\ PartEnd(s, c) = d - 1 /\ HeadEnd(s, c) # 0
         /\ SubSeq(s, HeadEnd(s, c) + 2, PartEnd(s, c) - 1) = p.body
<1>. DEFINE n == Len(HeaderLines(p))
            b == Len(p.body)
            m == d - 1
            a == c + n + 5
            ends(q) == StartsWith(s, q + 3, <<"crlf">>) \/ StartsWith(s, q + 3, <<"--">>)
            P == {q \in a..Len(s) : StartsWith(s, q, Delimiter) /\ ends(q)}
            f == p.body \o <<"crlf">>
<1>1. "crlf" \in Token /\ "--" \in Token
  BY DEF Token
<1>2. p.body \in Seq(Token) /\ b \in Nat
  <2>1. p.body \in Seq(STRING)
    BY DEF SentPart
  <2>2. STRING \subseteq Token
    BY DEF Token
  <2>3. p.body \in Seq(Token)
    BY <2>1, <2>2, SeqMonotonic
  <2>. QED  BY <2>3, LenProperties
<1>3. n \in Nat /\ Len(s) \in Nat /\ c \in Nat /\ c > 0
  <2>1. HeaderLines(p) \in Seq(Token)
    BY HeaderLinesAre
  <2>. QED  BY <2>1, LenProperties
<1>4. /\ \A i \in 1..b : s[c + n + 4 + i] = p.body[i]
      /\ s[c + n + b + 5] = "crlf"
  BY DEF Lies
<1>5. HeadEnd(s, c) = c + n + 3
  BY HeadFound
<1>6. f \in Seq(Token) /\ Len(f) = b + 1 /\ f[b + 1] = "crlf" /\ \A i \in 1..b : f[i] = p.body[i]
  <2>. DEFINE l == <<"crlf">>
  <2>1. l \in Seq(Token) /\ Len(l) = 1 /\ l[1] = "crlf"
    BY <1>1, Texts
  <2>. HIDE DEF l
  <2>2. /\ p.body \o l \in Seq(Token) /\ Len(p.body \o l) = Len(p.body) + Len(l)
        /\ \A i \in 1..Len(p.body) : (p.body \o l)[i] = p.body[i]
        /\ \A i \in 1..Len(l) : (p.body \o l)[Len(p.body) + i] = l[i]
    BY <1>2, <2>1, Joined
  <2>3. (p.body \o l)[Len(p.body) + 1] = l[1]
    BY ONLY <2>1, <2>2
  <2>. QED  BY ONLY <2>1, <2>2, <2>3 DEF l
<1>7. \A i \in DOMAIN f : ~StartsWith(f, i, Delimiter \o <<"crlf">>) /\ ~StartsWith(f, i, Delimiter \o <<"--">>)
  <2>1. \A i \in DOMAIN f, end \in {<<"crlf">>, <<"--">>} : ~StartsWith(f, i, Delimiter \o end)
    BY Zenon DEF Unambiguous
  <2>. HIDE DEF f
  <2>. QED  BY <2>1, Zenon
<1>8. PartEnd(s, c) = FirstOf(P)
  <2>1. HeadEnd(s, c) + 2 = a
    BY ONLY <1>3, <1>5
  <2>. QED  BY ONLY <2>1 DEF PartEnd, FindValidBoundary
<1>9. d = c + n + b + 6 /\ d \in Nat /\ d + 2 <= Len(s)
  OBVIOUS
<1>10. \A q \in Nat \ {0} : StartsWith(s, q, Delimiter) <=>
         q + 2 <= Len(s) /\ s[q] = "crlf" /\ s[q + 1] = "--" /\ s[q + 2] = "boundary"
  <2>. SUFFICES ASSUME NEW q \in Nat \ {0}
                PROVE  StartsWith(s, q, Delimiter) <=>
                         q + 2 <= Len(s) /\ s[q] = "crlf" /\ s[q + 1] = "--" /\ s[q + 2] = "boundary"
    BY Zenon
  <2>. QED  BY Looks
<1>11. \A q \in Nat : ends(q) <=> q + 3 <= Len(s) /\ s[q + 3] \in {"crlf", "--"}
  <2>. SUFFICES ASSUME NEW q \in Nat PROVE ends(q) <=> q + 3 <= Len(s) /\ s[q + 3] \in {"crlf", "--"}
    BY Zenon
  <2>1. q + 3 \in Nat \ {0}
    OBVIOUS
  <2>2. StartsWith(s, q + 3, <<"crlf">>) <=> q + 3 <= Len(s) /\ s[q + 3] = "crlf"
    BY <1>1, <2>1, Looks
  <2>3. StartsWith(s, q + 3, <<"--">>) <=> q + 3 <= Len(s) /\ s[q + 3] = "--"
    BY <1>1, <2>1, Looks
  <2>. QED  BY ONLY <2>2, <2>3
<1>. HIDE DEF n, b, f, ends
<1>12. m \in P
  <2>1. m \in a..Len(s) /\ m \in Nat \ {0} /\ m = c + n + b + 5 /\ m + 1 = d /\ m + 2 = d + 1 /\ m + 3 = d + 2
    BY ONLY <1>2, <1>3, <1>9
  <2>2. s[m] = "crlf" /\ s[m + 1] = "--" /\ s[m + 2] = "boundary" /\ s[m + 3] \in {"crlf", "--"}
    BY <1>4, <2>1
  <2>3. m + 2 <= Len(s) /\ m + 3 <= Len(s)
    BY ONLY <1>3, <1>9
  <2>. HIDE DEF m
  <2>4. StartsWith(s, m, Delimiter) /\ ends(m)
    BY ONLY <1>10, <1>11, <2>1, <2>2, <2>3
  <2>. QED  BY ONLY <2>1, <2>4
<1>13. ASSUME NEW q \in P, q < m PROVE FALSE
  <2>1. q \in a..Len(s) /\ q \in Nat \ {0} /\ q \in Nat
    BY ONLY <1>3, <1>13
  <2>2. StartsWith(s, q, Delimiter) /\ ends(q)
    BY ONLY <1>13
  <2>3. s[q] = "crlf" /\ s[q + 1] = "--" /\ s[q + 2] = "boundary" /\ s[q + 3] \in {"crlf", "--"}
    BY ONLY <1>10, <1>11, <2>1, <2>2
  <2>4. s[m] = "crlf"
    <3>1. m = c + n + b + 5
      BY ONLY <1>2, <1>3, <1>9
    <3>. QED  BY ONLY <1>4, <3>1
  <2>. HIDE DEF P
  <2>5. CASE q + 1 = m
    BY ONLY <2>3, <2>4, <2>5
  <2>6. CASE q + 2 = m
    BY ONLY <2>3, <2>4, <2>6
  <2>7. CASE q + 3 <= m
    <3>. DEFINE k == q - (c + n + 4)
    <3>1. k \in Nat \ {0} /\ k + 3 <= b + 1
      BY ONLY <1>2, <1>3, <1>9, <2>1, <2>7
    <3>2. ASSUME NEW j \in 0..3 PROVE f[k + j] = s[q + j]
      <4>1. CASE k + j <= b
        <5>1. k + j \in 1..b /\ c + n + 4 + (k + j) = q + j
          BY ONLY <1>2, <1>3, <2>1, <3>1, <3>2, <4>1
        <5>. HIDE DEF k
        <5>. QED  BY ONLY <1>4, <1>6, <5>1
      <4>2. CASE ~(k + j <= b)
        <5>1. k + j = b + 1 /\ q + j = c + n + b + 5
          BY ONLY <1>2, <1>3, <2>1, <3>1, <3>2, <4>2
        <5>. HIDE DEF k
        <5>. QED  BY ONLY <1>4, <1>6, <5>1
      <4>. QED  BY ONLY <4>1, <4>2
    <3>. HIDE DEF k
    <3>3. f[k + 0] = s[q + 0] /\ f[k + 1] = s[q + 1] /\ f[k + 2] = s[q + 2] /\ f[k + 3] = s[q + 3]
      BY ONLY <3>2
    <3>4. f[k] = s[q]
      <4>1. k + 0 = k /\ q + 0 = q
        BY ONLY <2>1, <3>1
      <4>. QED  BY ONLY <3>3, <4>1
    <3>5. k \in DOMAIN f /\ k + 3 <= Len(f)
      BY <1>2, <1>6, <3>1
    <3>6. PICK x \in {"crlf", "--"} : s[q + 3] = x
      BY ONLY <2>3
    <3>7. x \in Token
      BY ONLY <1>1, <3>6
    <3>8. StartsWith(f, k, Delimiter \o <<x>>)
      BY <1>6, <2>3, <3>1, <3>3, <3>4, <3>5, <3>6, <3>7, Looks
    <3>. QED  BY ONLY <1>7, <3>5, <3>6, <3>8
  <2>8. m \in Int
    BY ONLY <1>9
  <2>. QED  BY ONLY <1>13, <2>1, <2>5, <2>6, <2>7, <2>8
<1>14. FirstOf(P) = m
  <2>1. P \in SUBSET Int /\ m \in Int
    BY ONLY <1>3, <1>9
  <2>. HIDE DEF P, m
  <2>2. \A q \in P : m <= q
    BY ONLY <1>13, <2>1
  <2>. QED  BY ONLY <1>12, <2>1, <2>2, FirstOfIs
<1>. HIDE DEF P
<1>15. SubSeq(s, a, a + b - 1) = p.body
  <2>1. a \in Nat \ {0} /\ a + b - 1 <= Len(s)
    BY ONLY <1>2, <1>3, <1>9
  <2>2. ASSUME NEW k \in 1..b PROVE s[a + k - 1] = p.body[k]
    <3>1. a + k - 1 = c + n + 4 + k
      BY ONLY <1>3, <2>2
    <3>. QED  BY ONLY <1>4, <2>2, <3>1
  <2>. HIDE DEF a
  <2>3. StartsWith(s, a, p.body)
    BY <1>2, <2>1, <2>2, StartsIs DEF b
  <2>. QED  BY <2>3 DEF StartsWith, b
<1>16. PartEnd(s, c) = d - 1
  BY ONLY <1>8, <1>14
<1>17. HeadEnd(s, c) # 0 /\ HeadEnd(s, c) + 2 = a /\ d - 1 - 1 = a + b - 1
  BY ONLY <1>2, <1>3, <1>5, <1>9
<1>. QED  BY ONLY <1>15, <1>16, <1>17

\* So the part is read as it was sent.
LEMMA PartParsed ==
  ASSUME NEW s \in Seq(Token), NEW p \in SentPart, NEW c \in Nat \ {0}, StartsWith(s, c, EncodedPart(p)),
         Unambiguous(p), NEW d \in Nat, d = c + Len(EncodedPart(p)), d + 2 <= Len(s),
         s[d] = "--", s[d + 1] = "boundary", s[d + 2] \in {"crlf", "--"}
  PROVE  /\ StartsWith(s, c, Opening) /\ ~StartsWith(s, c + 2, <<"--">>) /\ PartOK(s, c)
         /\ PartEnd(s, c) + 1 = d /\ PartAt(s, c) = p /\ d > c
<1>. DEFINE h == HeaderLines(p)
<1>1. /\ Lies(s, c, p) /\ Len(h) \in Nat /\ Len(p.body) \in Nat
      /\ d = c + Len(h) + Len(p.body) + 6
  BY PartLies
<1>2. /\ PartEnd(s, c) = d - 1 /\ HeadEnd(s, c) # 0
      /\ SubSeq(s, HeadEnd(s, c) + 2, PartEnd(s, c) - 1) = p.body
  BY <1>1, BodyFound
<1>3. PartHeaders(s, c) = h
  BY <1>1, HeadFound
<1>4. /\ h \in Seq(Token) /\ Len(h) = (IF p.type = Absent THEN 1 ELSE 3) /\ h[1] = p.name
      /\ p.type # Absent => h[3] = p.type
      /\ p.name \in PartNames
  BY HeaderLinesAre
<1>5. s[c] = "--" /\ s[c + 1] = "boundary" /\ s[c + 2] = "crlf"
  BY <1>1 DEF Lies
<1>6. Len(s) \in Nat /\ c + 2 <= Len(s) /\ d > c /\ d - 1 # 0 /\ d - 1 + 1 = d /\ c + 2 \in Nat \ {0} /\ c + 1 <= Len(s)
  <2>1. Len(s) \in Nat
    BY LenProperties
  <2>2. c \in Nat /\ c > 0 /\ d \in Nat /\ d + 2 <= Len(s)
    OBVIOUS
  <2>3. PICK k \in Nat : d = c + k + 6
    <3>. DEFINE x == Len(h)
                y == Len(p.body)
    <3>1. x \in Nat /\ y \in Nat /\ d = c + x + y + 6
      BY ONLY <1>1
    <3>. HIDE DEF x, y
    <3>2. x + y \in Nat /\ d = c + (x + y) + 6
      BY ONLY <2>2, <3>1
    <3>. QED  BY ONLY <3>2
  <2>. QED  BY ONLY <2>1, <2>2, <2>3
<1>7. "crlf" \in Token /\ "--" \in Token
  BY DEF Token
<1>8. StartsWith(s, c, Opening)
  BY <1>5, <1>6, Looks
<1>9. ~StartsWith(s, c + 2, <<"--">>)
  BY <1>5, <1>6, <1>7, Looks
<1>10. StartsWith(s, c + 2, <<"crlf">>)
  BY <1>5, <1>6, <1>7, Looks
<1>11. HeadersOK(h)
  <2>1. h # <<>>
    BY ONLY <1>4
  <2>. QED  BY ONLY <1>4, <2>1 DEF HeadersOK
<1>12. PartOK(s, c)
  BY ONLY <1>2, <1>3, <1>6, <1>10, <1>11 DEF PartOK
<1>13. PartAt(s, c) = p
  <2>1. (IF Len(h) = 1 THEN Absent ELSE h[3]) = p.type
    <3>. HIDE DEF h
    <3>. QED  BY ONLY <1>4
  <2>2. PartAt(s, c) = [name |-> h[1], type |-> IF Len(h) = 1 THEN Absent ELSE h[3], body |-> p.body]
    BY ONLY <1>2, <1>3 DEF PartAt
  <2>3. PartAt(s, c) = [name |-> p.name, type |-> p.type, body |-> p.body]
    BY ONLY <1>4, <2>1, <2>2
  <2>4. p = [name |-> p.name, type |-> p.type, body |-> p.body]
    BY DEF SentPart
  <2>. QED  BY ONLY <2>3, <2>4
<1>. QED  BY ONLY <1>2, <1>6, <1>8, <1>9, <1>12, <1>13

\* A search that finds a place finds one of its places.
LEMMA FirstOfIn ==
  ASSUME NEW P \in SUBSET Nat, FirstOf(P) # 0 PROVE FirstOf(P) \in P
<1>1. P # {}
  BY DEF FirstOf
<1>2. PICK m \in P : \A q \in P : m <= q
  BY <1>1, Least
<1>3. P \in SUBSET Int
  OBVIOUS
<1>. QED  BY <1>2, <1>3, FirstOfIs

\* The parser always goes forward.
LEMMA GoesForward ==
  ASSUME NEW s \in Seq(Token), NEW c \in Nat \ {0}, PartOK(s, c)
  PROVE  PartEnd(s, c) + 1 \in 1..(Len(s) + 1) /\ PartEnd(s, c) + 1 > c
<1>0. Len(s) \in Nat
  BY LenProperties
<1>1. HeadEnd(s, c) # 0 /\ PartEnd(s, c) # 0
  BY DEF PartOK
<1>2. HeadEnd(s, c) \in (c + 3)..Len(s)
  <2>. DEFINE P == {q \in (c + 3)..Len(s) : StartsWith(s, q, <<"crlf", "crlf">>)}
  <2>1. HeadEnd(s, c) = FirstOf(P)
    BY DEF HeadEnd, FindSubslice
  <2>2. P \in SUBSET Nat /\ P \subseteq (c + 3)..Len(s)
    BY <1>0
  <2>. HIDE DEF P
  <2>. QED  BY <1>1, <2>1, <2>2, FirstOfIn
<1>3. PartEnd(s, c) \in (HeadEnd(s, c) + 2)..Len(s)
  <2>. DEFINE h == HeadEnd(s, c)
              P == {q \in (h + 2)..Len(s) :
                      /\ StartsWith(s, q, Delimiter)
                      /\ \/ StartsWith(s, q + 3, <<"crlf">>)
                         \/ StartsWith(s, q + 3, <<"--">>)}
  <2>1. PartEnd(s, c) = FirstOf(P)
    BY DEF PartEnd, FindValidBoundary
  <2>2. P \in SUBSET Nat /\ P \subseteq (h + 2)..Len(s)
    <3>. HIDE DEF h
    <3>1. h \in (c + 3)..Len(s)
      BY <1>2 DEF h
    <3>. QED  BY <1>0, <3>1
  <2>. HIDE DEF P
  <2>. QED  BY <1>1, <2>1, <2>2, FirstOfIn
<1>. DEFINE h == HeadEnd(s, c)
            e == PartEnd(s, c)
<1>4. h \in (c + 3)..Len(s) /\ e \in (h + 2)..Len(s) /\ c \in Nat
  BY <1>2, <1>3
<1>. HIDE DEF h, e
<1>5. e + 1 \in 1..(Len(s) + 1) /\ e + 1 > c
  BY ONLY <1>0, <1>4
<1>. QED  BY <1>5 DEF e

\* One step of the parser, from the answers f gives for the places after it.
Walk(s, f, c) ==
  IF ~StartsWith(s, c, Opening) THEN Failed
  ELSE IF StartsWith(s, c + 2, <<"--">>) THEN ClosedAt(s, c)
  ELSE IF ~PartOK(s, c) THEN Failed
  ELSE WithPart(PartAt(s, c), f[PartEnd(s, c) + 1])

LEMMA SameWalk ==
  ASSUME NEW s, NEW c, NEW f, NEW g, PartOK(s, c) => f[PartEnd(s, c) + 1] = g[PartEnd(s, c) + 1]
  PROVE  Walk(s, f, c) = Walk(s, g, c)
<1>1. CASE PartOK(s, c)
  BY <1>1 DEF Walk
<1>2. CASE ~PartOK(s, c)
  BY <1>2 DEF Walk
<1>. QED  BY <1>1, <1>2

\* The walk is well defined: there is an answer for every place of the body.
LEMMA Walked ==
  ASSUME NEW s \in Seq(Token)
  PROVE  \E f : PartsFrom(s) = f[1] /\ \A c \in 1..(Len(s) + 1) : f[c] = Walk(s, f, c)
<1>. DEFINE N == Len(s) + 1
            D == 1..N
            F(f) == [c \in D |-> Walk(s, f, c)]
            good(g, k) == \A c \in D : c > N - k => g[c] = Walk(s, g, c)
            T == {k \in Nat : ~\E g : good(g, k)}
<1>1. N \in Nat /\ N > 0
  <2>1. Len(s) \in Nat
    BY LenProperties
  <2>. QED  BY <2>1
<1>2. \A c \in D : PartOK(s, c) => PartEnd(s, c) + 1 \in D /\ PartEnd(s, c) + 1 > c
  <2>. SUFFICES ASSUME NEW c \in D, PartOK(s, c) PROVE PartEnd(s, c) + 1 \in D /\ PartEnd(s, c) + 1 > c
    OBVIOUS
  <2>1. c \in Nat \ {0}
    BY <1>1
  <2>. QED  BY <2>1, GoesForward
<1>. HIDE DEF N
<1>3. T = {}
  <2>. SUFFICES ASSUME T # {} PROVE FALSE
    OBVIOUS
  <2>1. PICK k \in T : \A j \in T : k <= j
    <3>1. T \in SUBSET Nat
      OBVIOUS
    <3>. HIDE DEF T
    <3>. QED  BY <3>1, Least
  <2>2. k \in Nat /\ ~\E g : good(g, k)
    BY <2>1
  <2>3. k # 0
    <3>. SUFFICES ASSUME k = 0 PROVE FALSE
      OBVIOUS
    <3>1. \A c \in D : ~(c > N - 0)
      BY <1>1
    <3>2. good(<<>>, 0)
      BY ONLY <3>1
    <3>. QED  BY ONLY <2>2, <3>2, k = 0
  <2>4. k - 1 \in Nat /\ k - 1 \notin T
    BY <2>1, <2>2, <2>3
  <2>5. PICK g : good(g, k - 1)
    BY ONLY <2>4
  <2>. DEFINE c0 == N - (k - 1)
              e == [c \in D |-> IF c = c0 THEN Walk(s, g, c0) ELSE g[c]]
  <2>6. c0 \in Int
    BY ONLY <1>1, <2>2
  <2>7. ASSUME NEW c \in D, c > N - k PROVE e[c] = Walk(s, e, c)
    <3>1. c >= c0 /\ (c # c0 => c > N - (k - 1)) /\ c \in Int
      BY ONLY <1>1, <2>2, <2>7
    <3>. HIDE DEF c0
    <3>2. e[c] = IF c = c0 THEN Walk(s, g, c0) ELSE g[c]
      BY ONLY <2>7
    <3>3. e[c] = Walk(s, g, c)
      BY ONLY <2>5, <2>7, <3>1, <3>2
    <3>4. PartOK(s, c) => e[PartEnd(s, c) + 1] = g[PartEnd(s, c) + 1]
      <4>. DEFINE j == PartEnd(s, c) + 1
      <4>. HIDE DEF j
      <4>1. PartOK(s, c) => j \in D /\ j > c
        BY ONLY <1>2, <2>7 DEF j
      <4>2. j \in D /\ j > c => j # c0
        BY ONLY <1>1, <2>6, <3>1
      <4>3. j \in D /\ j # c0 => e[j] = g[j]
        OBVIOUS
      <4>. HIDE DEF e
      <4>4. PartOK(s, c) => e[j] = g[j]
        BY ONLY <4>1, <4>2, <4>3
      <4>. QED  BY ONLY <4>4 DEF j
    <3>. HIDE DEF e
    <3>5. Walk(s, e, c) = Walk(s, g, c)
      BY ONLY <3>4, SameWalk
    <3>. QED  BY ONLY <3>3, <3>5
  <2>. HIDE DEF e
  <2>8. good(e, k)
    BY ONLY <2>7
  <2>. QED  BY ONLY <2>2, <2>8
<1>4. PICK g : \A c \in D : g[c] = Walk(s, g, c)
  <2>1. N \notin T /\ N \in Nat
    BY ONLY <1>1, <1>3
  <2>2. PICK g : good(g, N)
    BY ONLY <2>1
  <2>3. \A c \in D : c > N - N
    BY ONLY <1>1
  <2>. QED  BY ONLY <2>2, <2>3
<1>. DEFINE u == [c \in D |-> g[c]]
            w == CHOOSE f : f = F(f)
<1>5. ASSUME NEW c \in D PROVE Walk(s, u, c) = Walk(s, g, c) /\ u[c] = g[c]
  <2>1. PartOK(s, c) => u[PartEnd(s, c) + 1] = g[PartEnd(s, c) + 1]
    BY ONLY <1>2, <1>5
  <2>. HIDE DEF u
  <2>2. Walk(s, u, c) = Walk(s, g, c)
    BY ONLY <2>1, SameWalk
  <2>3. u[c] = g[c]
    BY ONLY <1>5 DEF u
  <2>. QED  BY ONLY <2>2, <2>3
<1>6. u = F(u)
  <2>1. ASSUME NEW c \in D PROVE g[c] = Walk(s, u, c)
    BY ONLY <1>4, <1>5, <2>1
  <2>. QED  BY ONLY <2>1
<1>7. w = F(w)
  <2>. HIDE DEF F, u
  <2>. QED  BY ONLY <1>6
<1>8. PartsFrom(s) = w[1]
  BY DEF PartsFrom, Walk, N
<1>. HIDE DEF w
<1>9. \A c \in D : w[c] = Walk(s, w, c)
  BY ONLY <1>7
<1>. QED  BY ONLY <1>8, <1>9 DEF N

\* What stands at a boundary of a form.
Bounds(s, d) == d + 2 <= Len(s) /\ s[d] = "--" /\ s[d + 1] = "boundary" /\ s[d + 2] \in {"crlf", "--"}

LEMMA FormClosed ==
  ASSUME NEW s \in Seq(Token), NEW d \in Nat \ {0}, StartsWith(s, d, Opening \o <<"--", "crlf">>)
  PROVE  Bounds(s, d) /\ s[d + 2] = "--" /\ s[d + 3] = "crlf"
<1>. DEFINE l == <<"--", "crlf">>
            e == Opening \o l
<1>1. l \in Seq(Token) /\ Len(l) = 2 /\ l[1] = "--" /\ l[2] = "crlf"
  <2>1. "--" \in Token /\ "crlf" \in Token
    BY DEF Token
  <2>. QED  BY <2>1, Texts
<1>2. Opening \in Seq(Token) /\ Len(Opening) = 2 /\ Opening[1] = "--" /\ Opening[2] = "boundary"
  BY Texts
<1>3. StartsWith(s, d, e)
  OBVIOUS
<1>. HIDE DEF l
<1>4. /\ e \in Seq(Token) /\ Len(e) = Len(Opening) + Len(l)
      /\ \A i \in 1..Len(Opening) : e[i] = Opening[i]
      /\ \A i \in 1..Len(l) : e[Len(Opening) + i] = l[i]
  BY <1>1, <1>2, Joined
<1>. HIDE DEF e
<1>5. e[1] = Opening[1] /\ e[2] = Opening[2] /\ e[2 + 1] = l[1] /\ e[2 + 2] = l[2] /\ Len(e) = 4
  BY ONLY <1>1, <1>2, <1>4
<1>6. d + Len(e) - 1 <= Len(s) /\ \A k \in 1..Len(e) : s[d + k - 1] = e[k]
  BY <1>3, <1>4, StartsIs
<1>7. s[d + 1 - 1] = e[1] /\ s[d + 2 - 1] = e[2] /\ s[d + 3 - 1] = e[3] /\ s[d + 4 - 1] = e[4]
  BY ONLY <1>5, <1>6
<1>8. d + 1 - 1 = d /\ d + 2 - 1 = d + 1 /\ d + 3 - 1 = d + 2 /\ d + 4 - 1 = d + 3 /\ 2 + 1 = 3 /\ 2 + 2 = 4
  OBVIOUS
<1>9. s[d] = e[1] /\ s[d + 1] = e[2] /\ s[d + 2] = e[3] /\ s[d + 3] = e[4]
  BY ONLY <1>7, <1>8
<1>10. e[1] = "--" /\ e[2] = "boundary" /\ e[3] = "--" /\ e[4] = "crlf"
  BY ONLY <1>1, <1>2, <1>5, <1>8
<1>11. d + 2 <= Len(s)
  <2>1. Len(s) \in Nat /\ d \in Nat
    BY LenProperties
  <2>. QED  BY ONLY <1>5, <1>6, <2>1
<1>. QED  BY ONLY <1>9, <1>10, <1>11 DEF Bounds

\* A form is read as its parts.
LEMMA FormParsed ==
  ASSUME NEW s \in Seq(Token), NEW parts \in Seq(SentPart), NEW starts \in Seq(Nat \ {0}),
         IsForm(s, parts, starts), \A i \in DOMAIN parts : Unambiguous(parts[i])
  PROVE  PartsFrom(s) = [ok |-> TRUE, parts |-> parts]
<1>. DEFINE n == Len(parts)
            N == Len(s) + 1
            z == starts[n + 1]
<1>1. /\ n \in Nat /\ Len(s) \in Nat /\ DOMAIN parts = 1..n
      /\ \A i \in 1..n : parts[i] \in SentPart /\ Unambiguous(parts[i])
  BY LenProperties, ElementOfSeq
<1>2. /\ Len(starts) = n + 1 /\ starts[1] = 1
      /\ \A i \in 1..n : StartsWith(s, starts[i], EncodedPart(parts[i]))
      /\ \A i \in 1..n : starts[i + 1] = starts[i] + Len(EncodedPart(parts[i]))
      /\ StartsWith(s, z, Opening \o <<"--", "crlf">>)
      /\ Len(s) = z + 3
  BY DEF IsForm
<1>3. \A i \in 1..(n + 1) : starts[i] \in Nat \ {0}
  BY <1>2, ElementOfSeq
<1>. HIDE DEF n
<1>4. z \in Nat \ {0}
  BY ONLY <1>1, <1>3
<1>. HIDE DEF z
<1>5. Bounds(s, z) /\ s[z + 2] = "--" /\ s[z + 3] = "crlf"
  BY <1>2, <1>4, FormClosed
<1>6. ASSUME NEW i \in 1..(n + 1) PROVE Bounds(s, starts[i])
  <2>1. CASE i = n + 1
    BY ONLY <1>5, <2>1 DEF z
  <2>2. CASE i # n + 1
    <3>. DEFINE c == starts[i]
                p == parts[i]
                x == Len(HeaderLines(p))
                y == Len(p.body)
    <3>1. i \in 1..n
      BY ONLY <1>1, <1>6, <2>2
    <3>2. c \in Nat \ {0} /\ p \in SentPart /\ StartsWith(s, c, EncodedPart(p))
      BY <1>1, <1>2, <1>3, <1>6, <3>1
    <3>. HIDE DEF c, p
    <3>3. Lies(s, c, p) /\ x \in Nat /\ y \in Nat
      BY <3>2, PartLies
    <3>4. /\ s[c] = "--" /\ s[c + 1] = "boundary" /\ s[c + 2] = "crlf"
          /\ c + x + y + 5 <= Len(s)
      BY ONLY <3>3 DEF Lies
    <3>5. x \in Nat /\ y \in Nat /\ c \in Nat
      BY ONLY <3>2, <3>3
    <3>. HIDE DEF x, y
    <3>6. c + 2 <= Len(s)
      BY ONLY <1>1, <3>4, <3>5
    <3>7. Bounds(s, c)
      BY ONLY <3>4, <3>6 DEF Bounds
    <3>. QED  BY ONLY <3>7 DEF c
  <2>. QED  BY ONLY <2>1, <2>2
<1>7. PICK f : PartsFrom(s) = f[1] /\ \A c \in 1..(Len(s) + 1) : f[c] = Walk(s, f, c)
  BY Walked
<1>8. ASSUME NEW i \in 1..(n + 1) PROVE starts[i] \in 1..(Len(s) + 1) /\ f[starts[i]] = Walk(s, f, starts[i])
  <2>. DEFINE c == starts[i]
  <2>1. c \in Nat \ {0} /\ c + 2 <= Len(s)
    BY <1>3, <1>6, <1>8 DEF Bounds
  <2>. HIDE DEF c
  <2>2. c \in 1..(Len(s) + 1)
    BY ONLY <1>1, <2>1
  <2>3. f[c] = Walk(s, f, c)
    BY ONLY <1>7, <2>2
  <2>. QED  BY ONLY <2>2, <2>3 DEF c
<1>. DEFINE read(i) == f[starts[i]] = [ok |-> TRUE, parts |-> SubSeq(parts, i, n)]
<1>9. read(n + 1)
  <2>1. n + 1 \in 1..(n + 1)
    BY ONLY <1>1
  <2>2. f[z] = Walk(s, f, z)
    BY ONLY <1>8, <2>1 DEF z
  <2>3. z + 1 <= Len(s) /\ z + 2 <= Len(s) /\ z + 3 = Len(s) /\ z + 2 \in Nat \ {0} /\ z + 3 \in Nat \ {0}
    BY ONLY <1>1, <1>2, <1>4
  <2>4. s[z] = "--" /\ s[z + 1] = "boundary" /\ s[z + 2] = "--"
    BY ONLY <1>5 DEF Bounds
  <2>5. "--" \in Token /\ "crlf" \in Token
    BY DEF Token
  <2>6. StartsWith(s, z, Opening)
    BY <1>4, <2>3, <2>4, Looks
  <2>7. StartsWith(s, z + 2, <<"--">>)
    BY <2>3, <2>4, <2>5, Looks
  <2>8. f[z] = ClosedAt(s, z)
    BY ONLY <2>2, <2>6, <2>7 DEF Walk
  <2>9. SubSeq(s, z + 3, Len(s)) = <<"crlf">>
    <3>1. StartsWith(s, z + 3, <<"crlf">>)
      BY <1>5, <2>3, <2>5, Looks
    <3>2. SubSeq(s, z + 3, z + 3 + Len(<<"crlf">>) - 1) = <<"crlf">>
      BY ONLY <3>1 DEF StartsWith
    <3>3. z + 3 + Len(<<"crlf">>) - 1 = Len(s)
      <4>1. Len(<<"crlf">>) = 1
        BY <2>5, Texts
      <4>. QED  BY ONLY <1>1, <2>3, <4>1
    <3>. QED  BY ONLY <3>2, <3>3
  <2>10. f[z] = [ok |-> TRUE, parts |-> <<>>]
    BY ONLY <2>8, <2>9 DEF ClosedAt
  <2>11. SubSeq(parts, n + 1, n) = <<>>
    BY <1>1, SubSeqEmpty
  <2>. QED  BY ONLY <2>10, <2>11 DEF z
<1>10. ASSUME NEW i \in 1..n, read(i + 1) PROVE read(i)
  <2>. DEFINE c == starts[i]
              d == starts[i + 1]
              p == parts[i]
  <2>1. i \in 1..(n + 1) /\ i + 1 \in 1..(n + 1)
    BY ONLY <1>1, <1>10
  <2>2. c \in Nat \ {0} /\ d \in Nat \ {0} /\ d \in Nat
    BY ONLY <1>3, <2>1
  <2>3. p \in SentPart /\ Unambiguous(p) /\ StartsWith(s, c, EncodedPart(p)) /\ d = c + Len(EncodedPart(p))
    BY ONLY <1>1, <1>2, <1>10
  <2>4. Bounds(s, d)
    BY ONLY <1>6, <2>1
  <2>5. f[c] = Walk(s, f, c)
    BY ONLY <1>8, <2>1
  <2>6. f[d] = [ok |-> TRUE, parts |-> SubSeq(parts, i + 1, n)]
    BY ONLY <1>10
  <2>. HIDE DEF c, d, p
  <2>7. /\ StartsWith(s, c, Opening) /\ ~StartsWith(s, c + 2, <<"--">>) /\ PartOK(s, c)
        /\ PartEnd(s, c) + 1 = d /\ PartAt(s, c) = p
    <3>1. d + 2 <= Len(s) /\ s[d] = "--" /\ s[d + 1] = "boundary" /\ s[d + 2] \in {"crlf", "--"}
      BY ONLY <2>4 DEF Bounds
    <3>. QED  BY <2>2, <2>3, <3>1, PartParsed
  <2>8. f[c] = WithPart(p, f[d])
    BY ONLY <2>5, <2>7 DEF Walk
  <2>9. WithPart(p, f[d]) = [ok |-> TRUE, parts |-> <<p>> \o SubSeq(parts, i + 1, n)]
    BY ONLY <2>6 DEF WithPart
  <2>10. SubSeq(parts, i, n) = <<p>> \o SubSeq(parts, i + 1, n)
    <3>1. i \in 1..Len(parts) /\ n \in i..Len(parts)
      BY <1>1, <1>10 DEF n
    <3>. QED  BY <3>1, SubSeqRecursiveFirst DEF p
  <2>11. f[c] = [ok |-> TRUE, parts |-> SubSeq(parts, i, n)]
    BY ONLY <2>8, <2>9, <2>10
  <2>. QED  BY ONLY <2>11 DEF c
<1>. DEFINE T == {k \in Nat : k <= n /\ ~read(n + 1 - k)}
<1>. HIDE DEF read
<1>11. T = {}
  <2>. SUFFICES ASSUME T # {} PROVE FALSE
    OBVIOUS
  <2>1. PICK k \in T : \A j \in T : k <= j
    <3>1. T \in SUBSET Nat
      OBVIOUS
    <3>. HIDE DEF T
    <3>. QED  BY <3>1, Least
  <2>2. k \in Nat /\ k <= n /\ ~read(n + 1 - k)
    BY <2>1
  <2>3. k # 0
    <3>1. k = 0 => n + 1 - k = n + 1
      BY ONLY <1>1
    <3>. QED  BY ONLY <1>9, <2>2, <3>1
  <2>4. k - 1 \in Nat /\ k - 1 <= n /\ ~(k <= k - 1)
    BY ONLY <1>1, <2>2, <2>3
  <2>5. read(n + 1 - (k - 1))
    <3>1. k - 1 \notin T
      <4>. HIDE DEF T
      <4>. QED  BY ONLY <2>1, <2>4
    <3>. QED  BY ONLY <2>4, <3>1
  <2>6. n + 1 - k \in 1..n /\ n + 1 - (k - 1) = (n + 1 - k) + 1
    BY ONLY <1>1, <2>2, <2>3
  <2>7. read((n + 1 - k) + 1)
    BY ONLY <2>5, <2>6
  <2>. QED  BY ONLY <1>10, <2>2, <2>6, <2>7
<1>12. read(1)
  <2>1. n \in Nat /\ n <= n /\ n + 1 - n = 1
    BY ONLY <1>1
  <2>2. n \notin T
    <3>. HIDE DEF T
    <3>. QED  BY ONLY <1>11
  <2>. QED  BY ONLY <2>1, <2>2
<1>13. f[1] = [ok |-> TRUE, parts |-> SubSeq(parts, 1, n)]
  BY ONLY <1>2, <1>12 DEF read
<1>14. SubSeq(parts, 1, n) = parts
  BY SubSeqFull DEF n
<1>. QED  BY ONLY <1>7, <1>13, <1>14

\* A body the parser reads without complaint gives the transform its file part.
LEMMA UploadBytes ==
  ASSUME NEW request, NEW body, NEW parts, PartsFrom(body) = [ok |-> TRUE, parts |-> parts],
         NEW answer, answer = UploadAnswer(request, ParseUpload(body, UploadDocuments, config.presets)),
         answer.work.done
  PROVE  answer.work.source.bytes = The(parts, "file")
<1>. DEFINE upload == ParseUpload(body, UploadDocuments, config.presets)
            form == [ok |-> TRUE, parts |-> parts]
            status == UploadStatus(form, FieldsStatus(form.parts, UploadDocuments, config.presets))
<1>1. upload = UploadRead(status, form.parts, UploadDocuments, config.presets)
  BY DEF ParseUpload, ParseForm
<1>2. form.parts = parts
  OBVIOUS
<1>. HIDE DEF status, form
<1>3. upload.status = Accepted => upload.file = The(parts, "file")
  <2>1. CASE status # Accepted
    <3>1. upload.status # Accepted
      BY <1>1, <2>1 DEF UploadRead
    <3>. QED  BY <3>1
  <2>2. CASE status = Accepted
    BY <1>1, <1>2, <2>2 DEF UploadRead
  <2>. QED  BY <2>1, <2>2
<1>. HIDE DEF upload
<1>4. answer = UploadAnswer(request, upload)
  BY DEF upload
<1>5. upload.status = Accepted
  BY <1>4, ProblemWork DEF UploadAnswer
<1>. DEFINE source == [kind |-> "file", reference |-> upload.file[1], version |-> Absent, bytes |-> upload.file]
<1>6. answer.work = Work("token", source, upload.options, upload.watermark)
  <2>1. answer = ImageAnswer(request, "private", Work("token", source, upload.options, upload.watermark))
    BY <1>4, <1>5 DEF UploadAnswer
  <2>. HIDE DEF source
  <2>. QED  BY <2>1, ImageWork
<1>7. source.bytes = upload.file
  OBVIOUS
<1>. HIDE DEF source
<1>8. answer.work.source = source
  BY <1>6 DEF Work
<1>. QED  BY <1>3, <1>5, <1>7, <1>8

LEMMA UploadRouted ==
  ASSUME NEW input, NEW now, NEW allowed, input.request.path = "/images", Given(input, now, allowed).work.done
  PROVE  Given(input, now, allowed) =
           UploadAnswer(input.request, ParseUpload(input.request.body, UploadDocuments, config.presets))
<1>. DEFINE answer == Given(input, now, allowed)
            request == input.request
            upload == ParseUpload(request.body, UploadDocuments, config.presets)
<1>1. answer = RouteRequest(request, now)
  BY ProblemWork DEF Given
<1>. HIDE DEF answer, request
<1>2. answer.work.done /\ request.path = "/images"
  BY DEF answer, request
<1>3. answer = Handle(request, now)
  <2>1. ~Answer(204, "none", NoWork).work.done
    BY DEF Answer, NoWork
  <2>. QED  BY <1>1, <1>2, <2>1, ProblemWork DEF RouteRequest
<1>4. answer = HandleUpload(request)
  BY <1>2, <1>3 DEF Handle, Probes
<1>. HIDE DEF upload
<1>5. answer = UploadAnswer(request, upload)
  <2>1. HandleUpload(request) = UploadAnswer(request, upload) \/ \E status : HandleUpload(request) = Problem(status)
    BY Zenon DEF HandleUpload, upload
  <2>. QED  BY <1>2, <1>4, <2>1, ProblemWork
<1>. QED  BY <1>5 DEF answer, request, upload

\* An upload is read as it was sent: whatever a form's parts hold, as long as
\* the boundary its client chose ends none of them, the parser returns those
\* parts, and the transform gets the file part byte for byte.
THEOREM UploadsAreReadAsSent == Spec => []UploadAsSent
<1>1. Init => config \in Configs /\ UploadAsSent
  BY DEF Init, NoExchange, UploadAsSent
<1>2. ASSUME config \in Configs, UploadAsSent, [Next]_vars
      PROVE  (config \in Configs /\ UploadAsSent)'
  <2>1. ASSUME NEW w \in Workers, Serve(w) PROVE UploadAsSent' /\ config' = config
    <3>0. config' = config
      BY <2>1 DEF Serve
    <3>1. PICK input \in Inputs(config), now \in Clock, allowed \in BOOLEAN :
            /\ exchange'.input = input
            /\ exchange'.answer = Given(input, now, allowed)
      BY <2>1, Served
    <3>. DEFINE answer == exchange'.answer
                body == input.request.body
                asked == /\ input.parts # <<>>
                         /\ input.request.path = "/images"
                         /\ \A i \in DOMAIN input.parts : Unambiguous(input.parts[i])
                read == /\ PartsFrom(body).parts = input.parts
                        /\ answer.work.done => answer.work.source.bytes = The(input.parts, "file")
    <3>2. ASSUME asked PROVE read
      <4>1. FormSent(input)
        BY <1>2, <3>2, InputAssumption
      <4>2. /\ input.parts \in Seq(SentPart) /\ input.starts \in Seq(Nat \ {0}) /\ body \in Seq(STRING)
            /\ IsForm(body, input.parts, input.starts)
        BY <4>1 DEF FormSent, SentPart
      <4>3. body \in Seq(Token)
        <5>1. STRING \subseteq Token
          BY DEF Token
        <5>. HIDE DEF body
        <5>. QED  BY <4>2, <5>1, SeqMonotonic
      <4>4. PartsFrom(body) = [ok |-> TRUE, parts |-> input.parts]
        BY <3>2, <4>2, <4>3, FormParsed
      <4>5. ASSUME answer.work.done PROVE answer.work.source.bytes = The(input.parts, "file")
        <5>1. answer = UploadAnswer(input.request, ParseUpload(body, UploadDocuments, config.presets))
          BY <3>1, <3>2, <4>5, UploadRouted
        <5>. HIDE DEF answer, body
        <5>. QED  BY <4>4, <4>5, <5>1, UploadBytes
      <4>6. PartsFrom(body).parts = input.parts
        <5>. HIDE DEF body
        <5>. QED  BY <4>4
      <4>. QED  BY <4>5, <4>6
    <3>3. (asked => read) => UploadAsSent'
      BY ONLY <3>1 DEF UploadAsSent
    <3>. HIDE DEF asked, read
    <3>. QED  BY ONLY <3>0, <3>2, <3>3
  <2>2. ASSUME NEW w \in Workers, RefuseHead(w) \/ RecordStep(w) PROVE UploadAsSent' /\ config' = config
    BY <2>2 DEF RefuseHead, RecordStep, NoExchange, UploadAsSent
  <2>3. CASE UNCHANGED vars
    BY <1>2, <2>3 DEF vars, UploadAsSent
  <2>. QED  BY <1>2, <2>1, <2>2, <2>3 DEF Next
<1>. QED  BY <1>1, <1>2, PTL DEF Spec

-----------------------------------------------------------------------------
(* The Accept header *)

LEMMA Greatest ==
  ASSUME NEW T \in SUBSET Nat, T # {}, \E K \in Nat : \A x \in T : x <= K
  PROVE  \E n \in T : \A m \in T : n >= m
<1>0. PICK K \in Nat : \A x \in T : x <= K
  OBVIOUS
<1>. DEFINE C == {K - x : x \in T}
<1>1. C \in SUBSET Nat /\ C # {}
  <2>1. \A x \in T : x \in Nat /\ x <= K
    BY <1>0
  <2>2. \A x \in T : K - x \in Nat
    BY <2>1
  <2>3. PICK x \in T : TRUE
    OBVIOUS
  <2>4. K - x \in C
    OBVIOUS
  <2>. QED  BY <2>2, <2>4
<1>2. PICK c \in C : \A d \in C : c <= d
  BY <1>1, Least
<1>3. PICK n \in T : c = K - n
  BY <1>2
<1>4. ASSUME NEW m \in T PROVE n >= m
  <2>1. c <= K - m
    BY <1>2
  <2>. QED  BY <1>3, <2>1
<1>. QED  BY <1>4

LEMMA GreatestBelow ==
  ASSUME NEW T \in SUBSET Nat, T # {}, \A x \in T : x <= 3002
  PROVE  \E n \in T : \A m \in T : n >= m
<1>1. \E K \in Nat : \A x \in T : x <= K
  <2>. DEFINE K == 3002
  <2>1. K \in Nat /\ \A x \in T : x <= K
    BY SMT
  <2>. HIDE DEF K
  <2>. QED  BY ONLY <2>1
<1>. QED  BY ONLY <1>1, Greatest, T \in SUBSET Nat, T # {}, Zenon

LEMMA FirstAtFacts ==
  ASSUME NEW all \in Seq(MediaTypes), NEW t, \E i \in DOMAIN all : all[i] = t
  PROVE  FirstAt(all, t) \in DOMAIN all /\ all[FirstAt(all, t)] = t
<1>. DEFINE T == {i \in DOMAIN all : all[i] = t}
<1>1. DOMAIN all \subseteq Nat
  OBVIOUS
<1>2. PICK n \in T : \A m \in T : n <= m
  BY <1>1, Least
<1>3. n \in DOMAIN all /\ all[n] = t /\ \A j \in DOMAIN all : all[j] = t => n <= j
  BY <1>2
<1>. QED  BY ONLY <1>3 DEF FirstAt

\* The order of the candidates is one: each base type stands in it once.
LEMMA OrderedFacts ==
  ASSUME NEW all \in Seq(MediaTypes), \A t \in BaseTypes : \E i \in DOMAIN all : all[i] = t
  PROVE  /\ Ordered(all) \in [1..3 -> BaseTypes]
         /\ \A i, j \in 1..3 : i # j => Ordered(all)[i] # Ordered(all)[j]
<1>. DEFINE F(t) == FirstAt(all, t)
            InOrder(s) == \A i, j \in 1..3 : i < j => F(s[i]) < F(s[j])
<1>1. \A t \in BaseTypes : F(t) \in Nat /\ all[F(t)] = t
  <2>1. \A i \in DOMAIN all : i \in Nat
    OBVIOUS
  <2>. QED  BY <2>1, FirstAtFacts
<1>. HIDE DEF F
<1>2. ASSUME NEW x \in BaseTypes, NEW y \in BaseTypes, NEW z \in BaseTypes, F(x) < F(y), F(y) < F(z)
      PROVE  \E s \in [1..3 -> BaseTypes] : InOrder(s)
  <2>. DEFINE s == [i \in 1..3 |-> IF i = 1 THEN x ELSE IF i = 2 THEN y ELSE z]
  <2>1. s \in [1..3 -> BaseTypes] /\ s[1] = x /\ s[2] = y /\ s[3] = z
    OBVIOUS
  <2>2. F(x) < F(z)
    BY <1>1, <1>2
  <2>. HIDE DEF s
  <2>3. ASSUME NEW i \in 1..3, NEW j \in 1..3, i < j PROVE F(s[i]) < F(s[j])
    <3>1. <<i, j>> \in {<<1, 2>>, <<1, 3>>, <<2, 3>>}
      BY <2>3
    <3>. QED  BY <1>2, <2>1, <2>2, <3>1
  <2>. QED  BY <2>1, <2>3
<1>3. "webp" \in BaseTypes /\ "png" \in BaseTypes /\ "jpeg" \in BaseTypes
  BY DEF BaseTypes
<1>4. /\ F("webp") \in Nat /\ F("png") \in Nat /\ F("jpeg") \in Nat
      /\ F("webp") # F("png") /\ F("webp") # F("jpeg") /\ F("png") # F("jpeg")
  BY <1>1, <1>3
<1>. HIDE DEF InOrder
<1>5. \E s \in [1..3 -> BaseTypes] : InOrder(s)
  <2>1. \/ F("webp") < F("png") /\ F("png") < F("jpeg")
        \/ F("webp") < F("jpeg") /\ F("jpeg") < F("png")
        \/ F("png") < F("webp") /\ F("webp") < F("jpeg")
        \/ F("png") < F("jpeg") /\ F("jpeg") < F("webp")
        \/ F("jpeg") < F("webp") /\ F("webp") < F("png")
        \/ F("jpeg") < F("png") /\ F("png") < F("webp")
    BY ONLY <1>4
  <2>. QED  BY ONLY <1>2, <1>3, <2>1
<1>6. Ordered(all) \in [1..3 -> BaseTypes] /\ InOrder(Ordered(all))
  BY ONLY <1>5 DEF Ordered, InOrder, F
<1>7. ASSUME NEW i \in 1..3, NEW j \in 1..3, i # j PROVE Ordered(all)[i] # Ordered(all)[j]
  <2>1. i < j \/ j < i
    BY <1>7
  <2>2. F(Ordered(all)[i]) < F(Ordered(all)[j]) \/ F(Ordered(all)[j]) < F(Ordered(all)[i])
    BY ONLY <1>6, <2>1 DEF InOrder
  <2>3. F(Ordered(all)[i]) \in Nat /\ F(Ordered(all)[j]) \in Nat
    BY ONLY <1>1, <1>6
  <2>. QED  BY ONLY <2>2, <2>3
<1>. QED  BY <1>6, <1>7

LEMMA ThreeOf ==
  ASSUME NEW S, NEW f \in [1..3 -> S] PROVE f \in Seq(S)
<1>1. 3 \in Nat
  OBVIOUS
<1>. QED  BY <1>1, SeqDef

LEMMA Triple ==
  ASSUME NEW S, NEW a \in S, NEW b \in S, NEW c \in S
  PROVE  /\ <<a, b, c>> \in Seq(S) /\ Len(<<a, b, c>>) = 3
         /\ <<a, b, c>>[1] = a /\ <<a, b, c>>[2] = b /\ <<a, b, c>>[3] = c
OBVIOUS

LEMMA Prepended ==
  ASSUME NEW S, NEW t \in S, NEW o \in Seq(S), Len(o) = 3
  PROVE  LET p == <<t>> \o o
         IN p \in Seq(S) /\ Len(p) = 4 /\ p[1] = t /\ \A i \in 2..4 : p[i] = o[i - 1]
<1>. DEFINE u == <<t>>
            p == u \o o
<1>1. u \in Seq(S) /\ Len(u) = 1 /\ u[1] = t
  OBVIOUS
<1>. HIDE DEF u
<1>2. /\ p \in Seq(S) /\ Len(p) = Len(u) + Len(o)
      /\ \A j \in 1..(Len(u) + Len(o)) : p[j] = IF j <= Len(u) THEN u[j] ELSE o[j - Len(u)]
  BY <1>1, ConcatProperties
<1>. HIDE DEF p
<1>3. p \in Seq(S) /\ Len(p) = 4 /\ p[1] = t /\ \A i \in 2..4 : p[i] = o[i - 1]
  BY <1>1, <1>2
<1>. QED  BY <1>3 DEF p, u

LEMMA OfferedFacts ==
  ASSUME NEW image, image.type \in MediaTypes, NEW preference \in Seq(MediaTypes)
  PROVE  LET outputs == PreferredOutputs(image, preference)
         IN /\ DOMAIN outputs \subseteq Nat /\ 1 \in DOMAIN outputs /\ \A i \in DOMAIN outputs : 1 <= i
            /\ \A i \in DOMAIN outputs : outputs[i] \in MediaTypes
            /\ \A i, j \in DOMAIN outputs : outputs[i] = outputs[j] => i = j
            /\ \E i \in DOMAIN outputs : outputs[i] = DefaultOutput(image.type)
<1>. DEFINE all == preference \o Base(image)
            ordered == Ordered(all)
            outputs == PreferredOutputs(image, preference)
<1>0. "webp" \in MediaTypes /\ "png" \in MediaTypes /\ "jpeg" \in MediaTypes
  BY DEF MediaTypes
<1>1. /\ Base(image) \in Seq(MediaTypes) /\ Len(Base(image)) = 3
      /\ \A t \in BaseTypes : \E i \in 1..3 : Base(image)[i] = t
  <2>1. CASE image.alpha
    <3>0. Base(image) = <<"webp", "png", "jpeg">>
      BY <2>1 DEF Base
    <3>2. /\ Base(image) \in Seq(MediaTypes) /\ Len(Base(image)) = 3
          /\ Base(image)[1] = "webp" /\ Base(image)[2] = "png" /\ Base(image)[3] = "jpeg"
      BY ONLY <1>0, <3>0, Triple
    <3>3. \A t \in BaseTypes : \E i \in 1..3 : Base(image)[i] = t
      <4>1. 1 \in 1..3 /\ 2 \in 1..3 /\ 3 \in 1..3
        OBVIOUS
      <4>. QED  BY ONLY <3>2, <4>1, Zenon DEF BaseTypes
    <3>. QED  BY <3>2, <3>3
  <2>2. CASE ~image.alpha
    <3>0. Base(image) = <<"webp", "jpeg", "png">>
      BY <2>2 DEF Base
    <3>2. /\ Base(image) \in Seq(MediaTypes) /\ Len(Base(image)) = 3
          /\ Base(image)[1] = "webp" /\ Base(image)[2] = "jpeg" /\ Base(image)[3] = "png"
      BY ONLY <1>0, <3>0, Triple
    <3>3. \A t \in BaseTypes : \E i \in 1..3 : Base(image)[i] = t
      <4>1. 1 \in 1..3 /\ 2 \in 1..3 /\ 3 \in 1..3
        OBVIOUS
      <4>. QED  BY ONLY <3>2, <4>1, Zenon DEF BaseTypes
    <3>. QED  BY <3>2, <3>3
  <2>. QED  BY <2>1, <2>2
<1>2. all \in Seq(MediaTypes)
  BY <1>1
<1>3. ASSUME NEW t \in BaseTypes PROVE \E i \in DOMAIN all : all[i] = t
  <2>1. PICK i \in 1..3 : Base(image)[i] = t
    BY <1>1
  <2>2. Len(preference) + i \in DOMAIN all /\ all[Len(preference) + i] = t
    <3>1. Len(preference) \in Nat /\ Base(image) \in Seq(MediaTypes) /\ Len(Base(image)) = 3
      BY <1>1
    <3>2. /\ Len(all) = Len(preference) + 3
          /\ \A k \in 1..3 : all[Len(preference) + k] = Base(image)[k]
      <4>. DEFINE base == Base(image)
      <4>1. /\ Len(all) = Len(preference) + Len(base)
            /\ \A k \in 1..(Len(preference) + Len(base)) :
                 all[k] = IF k <= Len(preference) THEN preference[k] ELSE base[k - Len(preference)]
        BY <3>1, ConcatProperties
      <4>. HIDE DEF base, all
      <4>2. Len(base) = 3
        BY <3>1 DEF base
      <4>3. ASSUME NEW k \in 1..3 PROVE all[Len(preference) + k] = base[k]
        <5>1. /\ Len(preference) + k \in 1..(Len(preference) + Len(base))
              /\ ~(Len(preference) + k <= Len(preference))
              /\ (Len(preference) + k) - Len(preference) = k
          BY ONLY <3>1, <4>2, k \in 1..3
        <5>. QED  BY ONLY <4>1, <5>1
      <4>. QED  BY <4>1, <4>2, <4>3 DEF base
    <3>. HIDE DEF all
    <3>. QED  BY <1>2, <2>1, <3>1, <3>2
  <2>. QED  BY <2>2
<1>4. /\ ordered \in [1..3 -> BaseTypes]
      /\ \A i, j \in 1..3 : i # j => ordered[i] # ordered[j]
  BY <1>2, <1>3, OrderedFacts
<1>5. outputs = IF Has(ordered, image.type) THEN ordered ELSE <<image.type>> \o ordered
  BY DEF PreferredOutputs
<1>. HIDE DEF all, ordered, outputs
<1>6. BaseTypes \subseteq MediaTypes
  BY DEF BaseTypes, MediaTypes
<1>9. \E i \in 1..3 : ordered[i] = "png"
  <2>1. /\ ordered[1] \in BaseTypes /\ ordered[2] \in BaseTypes /\ ordered[3] \in BaseTypes
        /\ ordered[1] # ordered[2] /\ ordered[1] # ordered[3] /\ ordered[2] # ordered[3]
    BY <1>4
  <2>2. ordered[1] = "png" \/ ordered[2] = "png" \/ ordered[3] = "png"
    BY ONLY <2>1 DEF BaseTypes
  <2>. QED  BY ONLY <2>2
<1>10. DefaultOutput(image.type) \in {image.type, "png"}
  BY DEF DefaultOutput
<1>7. CASE Has(ordered, image.type)
  <2>1. outputs = ordered /\ DOMAIN outputs = 1..3
    BY <1>4, <1>5, <1>7
  <2>2. DOMAIN ordered = 1..3 /\ \E i \in DOMAIN ordered : ordered[i] = image.type
    BY ONLY <1>4, <1>7 DEF Has
  <2>3. \E i \in DOMAIN outputs : outputs[i] = DefaultOutput(image.type)
    BY ONLY <1>9, <1>10, <2>1, <2>2
  <2>4. /\ DOMAIN outputs \subseteq Nat /\ 1 \in DOMAIN outputs /\ \A i \in DOMAIN outputs : 1 <= i
        /\ \A i \in DOMAIN outputs : outputs[i] \in MediaTypes
        /\ \A i, j \in DOMAIN outputs : outputs[i] = outputs[j] => i = j
    BY ONLY <1>4, <1>6, <2>1
  <2>. QED  BY ONLY <2>3, <2>4 DEF outputs
<1>8. CASE ~Has(ordered, image.type)
  <2>1. ordered \in Seq(MediaTypes) /\ Len(ordered) = 3
    <3>1. ordered \in [1..3 -> MediaTypes]
      BY <1>4, <1>6
    <3>2. ordered \in Seq(MediaTypes)
      BY ONLY <3>1, ThreeOf
    <3>3. DOMAIN ordered = 1..3
      BY ONLY <3>1
    <3>. QED  BY ONLY <3>2, <3>3
  <2>2. DOMAIN outputs = 1..4 /\ outputs[1] = image.type /\ \A i \in 2..4 : outputs[i] = ordered[i - 1]
    <3>1. outputs = <<image.type>> \o ordered
      BY <1>5, <1>8
    <3>2. /\ outputs \in Seq(MediaTypes) /\ Len(outputs) = 4 /\ outputs[1] = image.type
          /\ \A i \in 2..4 : outputs[i] = ordered[i - 1]
      BY ONLY <2>1, <3>1, Prepended, image.type \in MediaTypes
    <3>. QED  BY ONLY <3>2
  <2>3. \A i \in 1..3 : ordered[i] # image.type
    BY ONLY <1>4, <1>8 DEF Has
  <2>4. \A i \in 2..4 : outputs[i] \in BaseTypes /\ outputs[i] # image.type
    BY ONLY <1>4, <2>2, <2>3
  <2>5. ASSUME NEW i \in 1..4, NEW j \in 1..4, outputs[i] = outputs[j] PROVE i = j
    <3>1. CASE i = 1 \/ j = 1
      BY ONLY <2>2, <2>4, <2>5, <3>1
    <3>2. CASE i # 1 /\ j # 1
      <4>1. i - 1 \in 1..3 /\ j - 1 \in 1..3 /\ ordered[i - 1] = ordered[j - 1]
        BY ONLY <2>2, <2>5, <3>2
      <4>. QED  BY ONLY <1>4, <4>1
    <3>. QED  BY <3>1, <3>2
  <2>6. \A i \in 1..4 : outputs[i] \in MediaTypes
    BY <1>6, <2>2, <2>4
  <2>7. \E i \in DOMAIN outputs : outputs[i] = DefaultOutput(image.type)
    <3>1. PICK k \in 1..3 : ordered[k] = "png"
      BY <1>9
    <3>2. k + 1 \in 2..4 /\ (k + 1) - 1 = k
      BY ONLY k \in 1..3
    <3>3. k + 1 \in DOMAIN outputs /\ outputs[k + 1] = "png"
      BY ONLY <2>2, <3>1, <3>2
    <3>. QED  BY ONLY <1>10, <2>2, <3>3
  <2>8. DOMAIN outputs \subseteq Nat /\ 1 \in DOMAIN outputs /\ \A i \in DOMAIN outputs : 1 <= i
    BY ONLY <2>2
  <2>. QED  BY ONLY <2>2, <2>5, <2>6, <2>7, <2>8 DEF outputs
<1>. QED  BY <1>7, <1>8 DEF outputs

LEMMA WeightFacts ==
  ASSUME NEW accept, NEW t
  PROVE  /\ AcceptWeight(accept, t) \in AcceptWeights(accept, t)
         /\ \A p \in AcceptWeights(accept, t) : p \in Nat /\ p <= AcceptWeight(accept, t)
<1>1. AcceptWeights(accept, t) \subseteq 0..1000 /\ AcceptWeights(accept, t) # {}
  BY DEF AcceptWeights
<1>2. \E n \in AcceptWeights(accept, t) : \A m \in AcceptWeights(accept, t) : n >= m
  <2>. DEFINE W == AcceptWeights(accept, t)
  <2>1. W # {} /\ \A x \in W : x \in 0..1000
    BY <1>1
  <2>. HIDE DEF W
  <2>2. \A x \in W : x \in Nat /\ x <= 1000
    BY ONLY <2>1
  <2>3. W \in SUBSET Nat
    BY ONLY <2>2
  <2>4. \E n \in W : \A m \in W : n >= m
    <3>1. \A x \in W : x <= 3002
      BY ONLY <2>2
    <3>. QED  BY ONLY <2>1, <2>3, <3>1, GreatestBelow
  <2>. QED  BY <2>4 DEF W
<1>3. /\ AcceptWeight(accept, t) \in AcceptWeights(accept, t)
      /\ \A p \in AcceptWeights(accept, t) : AcceptWeight(accept, t) >= p
  BY ONLY <1>2 DEF AcceptWeight
<1>4. \A p \in AcceptWeights(accept, t) : p \in Nat
  BY <1>1
<1>. QED  BY ONLY <1>3, <1>4

\* A match as MatchPreferences compares it.
Ranked(m) == m.q \in Nat /\ m.q <= 1000 /\ m.specificity \in Nat /\ m.specificity <= 2

\* Some match is beaten by no other.
LEMMA BestOne ==
  ASSUME NEW M, M # {}, \A m \in M : Ranked(m)
  PROVE  \E m \in M : \A n \in M : ~Beats(n, m)
<1>. DEFINE Rank(m) == 3 * m.q + m.specificity
            T == {Rank(m) : m \in M}
<1>1. T \in SUBSET Nat /\ T # {} /\ \A x \in T : x <= 3002
  <2>1. ASSUME NEW m \in M PROVE Rank(m) \in Nat /\ Rank(m) <= 3002
    <3>1. m.q \in Nat /\ m.q <= 1000 /\ m.specificity \in Nat /\ m.specificity <= 2
      BY DEF Ranked
    <3>. QED  BY ONLY <3>1
  <2>2. PICK m \in M : TRUE
    OBVIOUS
  <2>. HIDE DEF Rank
  <2>3. Rank(m) \in T
    OBVIOUS
  <2>. QED  BY <2>1, <2>3
<1>2. PICK r \in T : \A x \in T : r >= x
  <2>. HIDE DEF T
  <2>1. (\A x \in T : x <= 3002) /\ T \in SUBSET Nat /\ T # {}
    BY <1>1 DEF T
  <2>. QED  BY ONLY <2>1, GreatestBelow
<1>3. PICK m \in M : r = Rank(m)
  BY <1>2
<1>4. ASSUME NEW n \in M, Beats(n, m) PROVE FALSE
  <2>1. Rank(m) >= Rank(n)
    BY <1>2, <1>3
  <2>2. /\ m.q \in Nat /\ m.q <= 1000 /\ m.specificity \in Nat /\ m.specificity <= 2
        /\ n.q \in Nat /\ n.q <= 1000 /\ n.specificity \in Nat /\ n.specificity <= 2
    BY DEF Ranked
  <2>3. n.q > m.q \/ (n.q = m.q /\ n.specificity > m.specificity)
    BY ONLY <1>4 DEF Beats
  <2>. QED  BY ONLY <2>1, <2>2, <2>3
<1>. QED  BY <1>4

\* match_accept_preferences finds the weight the header gives the type, and the
\* most specific of the ranges that give it this weight.
LEMMA MatchFacts ==
  ASSUME NEW accept, NEW t
  PROVE  LET match == MatchPreferences(t, AcceptPreferences(accept))
         IN /\ match.q = AcceptWeight(accept, t) /\ Ranked(match)
            /\ match = [q |-> match.q, specificity |-> match.specificity]
            /\ \A r : Writes(accept, r, match.q) /\ RangeMatches(r, t) => match.specificity >= Specificity(r)
            /\ match.q > 0 => \E r : /\ Writes(accept, r, match.q) /\ RangeMatches(r, t)
                                     /\ match.specificity = Specificity(r)
<1>. DEFINE prefs == AcceptPreferences(accept)
            matches == {[q |-> p.q, specificity |-> p.specificity] :
                          p \in {r \in prefs : RangeMatches(r.range, t)}} \cup {Nothing}
            match == MatchPreferences(t, prefs)
            Given3 == {k \in DOMAIN accept : Recognised(accept[k].range) /\ accept[k].q \in 0..1000}
<1>1. \A p \in prefs : \E k \in Given3 :
         p.range = accept[k].range /\ p.q = accept[k].q /\ p.specificity = Specificity(accept[k].range)
  BY DEF AcceptPreferences
<1>2. \A k \in Given3 : [range |-> accept[k].range, q |-> accept[k].q,
                         specificity |-> Specificity(accept[k].range)] \in prefs
  BY DEF AcceptPreferences
<1>3. \A r : Specificity(r) \in 0..2
  BY DEF Specificity
<1>4. \A m \in matches : Ranked(m) /\ m.q \in AcceptWeights(accept, t)
  <2>1. ASSUME NEW p \in prefs, RangeMatches(p.range, t)
        PROVE  Ranked(p) /\ p.q \in AcceptWeights(accept, t)
    <3>1. p.q \in 0..1000 /\ p.specificity \in 0..2 /\ p.q \in AcceptWeights(accept, t)
      BY <1>1, <1>3, <2>1 DEF AcceptWeights
    <3>. QED  BY <3>1 DEF Ranked
  <2>2. Nothing.q = 0 /\ Nothing.specificity = 0 /\ 0 \in AcceptWeights(accept, t)
    BY DEF Nothing, AcceptWeights
  <2>. HIDE DEF prefs
  <2>. QED  BY <2>1, <2>2 DEF Ranked
<1>5. \A w \in AcceptWeights(accept, t) : \E m \in matches : m.q = w
  <2>1. Nothing \in matches /\ Nothing.q = 0
    BY DEF Nothing
  <2>2. ASSUME NEW w \in AcceptWeights(accept, t), w # 0 PROVE \E m \in matches : m.q = w
    <3>1. PICK k \in Given3 : RangeMatches(accept[k].range, t) /\ accept[k].q = w
      BY <2>2 DEF AcceptWeights
    <3>. DEFINE p == [range |-> accept[k].range, q |-> accept[k].q,
                      specificity |-> Specificity(accept[k].range)]
    <3>2. p \in prefs /\ p.range = accept[k].range /\ p.q = w
      BY ONLY <1>2, <3>1
    <3>. HIDE DEF prefs, p
    <3>. DEFINE m == [q |-> p.q, specificity |-> p.specificity]
    <3>3. m \in matches
      BY <3>1, <3>2
    <3>4. m.q = w
      BY <3>2
    <3>. HIDE DEF m, matches
    <3>. QED  BY <3>3, <3>4
  <2>. HIDE DEF matches
  <2>. QED  BY <2>1, <2>2
<1>6. match = CHOOSE m \in matches : \A n \in matches : ~Beats(n, m)
  BY DEF MatchPreferences
<1>7. matches # {}
  OBVIOUS
<1>13. ASSUME NEW m \in matches
       PROVE  /\ m = [q |-> m.q, specificity |-> m.specificity]
              /\ m.q > 0 => \E r : Writes(accept, r, m.q) /\ RangeMatches(r, t) /\ m.specificity = Specificity(r)
  <2>1. CASE m = Nothing
    BY <2>1 DEF Nothing
  <2>2. CASE m # Nothing
    <3>1. PICK p \in prefs : RangeMatches(p.range, t) /\ m = [q |-> p.q, specificity |-> p.specificity]
      BY <2>2
    <3>2. PICK k \in Given3 : /\ p.range = accept[k].range /\ p.q = accept[k].q
                              /\ p.specificity = Specificity(accept[k].range)
      BY <1>1
    <3>3. Writes(accept, p.range, p.q)
      BY <3>2 DEF Writes
    <3>. QED  BY <3>1, <3>2, <3>3
  <2>. QED  BY <2>1, <2>2
<1>14. ASSUME NEW r, NEW w, Writes(accept, r, w), w \in 0..1000, RangeMatches(r, t)
       PROVE  [q |-> w, specificity |-> Specificity(r)] \in matches
  <2>1. PICK k \in Given3 : accept[k].range = r /\ accept[k].q = w
    BY <1>14 DEF Writes
  <2>. DEFINE p == [range |-> accept[k].range, q |-> accept[k].q, specificity |-> Specificity(accept[k].range)]
  <2>2. p \in prefs /\ p.range = r /\ p.q = w /\ p.specificity = Specificity(r)
    BY ONLY <1>2, <2>1
  <2>. HIDE DEF prefs, p
  <2>. QED  BY <1>14, <2>2
<1>. HIDE DEF prefs, matches, match
<1>8. \E m \in matches : \A n \in matches : ~Beats(n, m)
  BY ONLY <1>4, <1>7, BestOne
<1>9. match \in matches /\ \A n \in matches : ~Beats(n, match)
  BY ONLY <1>6, <1>8
<1>10. match.q \in AcceptWeights(accept, t) /\ Ranked(match)
  BY <1>4, <1>9
<1>11. ASSUME NEW w \in AcceptWeights(accept, t) PROVE w <= match.q
  <2>1. PICK m \in matches : m.q = w
    BY <1>5
  <2>2. ~(m.q > match.q)
    BY <1>9 DEF Beats
  <2>3. m.q \in Nat /\ match.q \in Nat
    BY <1>4, <1>10 DEF Ranked
  <2>. QED  BY ONLY <2>1, <2>2, <2>3
<1>12. match.q = AcceptWeight(accept, t)
  <2>. DEFINE W == AcceptWeight(accept, t)
  <2>1. W \in Nat /\ match.q \in Nat /\ W <= match.q /\ match.q <= W
    BY <1>10, <1>11, WeightFacts
  <2>. QED  BY ONLY <2>1
<1>15. ASSUME NEW r, Writes(accept, r, match.q), RangeMatches(r, t) PROVE match.specificity >= Specificity(r)
  <2>. DEFINE n == [q |-> match.q, specificity |-> Specificity(r)]
  <2>1. match.q \in 0..1000 /\ match.specificity \in Nat /\ Specificity(r) \in 0..2
    BY <1>3, <1>10 DEF Ranked
  <2>2. n \in matches /\ n.q = match.q /\ n.specificity = Specificity(r)
    BY <1>14, <1>15, <2>1
  <2>. HIDE DEF n
  <2>3. ~(n.specificity > match.specificity)
    BY <1>9, <2>2 DEF Beats
  <2>. QED  BY ONLY <2>1, <2>2, <2>3
<1>. QED  BY <1>9, <1>10, <1>12, <1>13, <1>15 DEF match, prefs

\* The loop of negotiate_output_format stops at the first candidate that no
\* other beats.
LEMMA ChosenFirst ==
  ASSUME NEW outputs, DOMAIN outputs \subseteq Nat, DOMAIN outputs # {}, NEW preferences,
         \A i \in DOMAIN outputs : Ranked(MatchPreferences(outputs[i], preferences))
  PROVE  \E i \in DOMAIN outputs :
           /\ FirstOfBest(outputs, preferences).type = outputs[i]
           /\ FirstOfBest(outputs, preferences).q = MatchPreferences(outputs[i], preferences).q
           /\ FirstOfBest(outputs, preferences).specificity = MatchPreferences(outputs[i], preferences).specificity
           /\ \A j \in DOMAIN outputs :
                /\ ~Beats(MatchPreferences(outputs[j], preferences), MatchPreferences(outputs[i], preferences))
                /\ j < i => MatchPreferences(outputs[j], preferences) # MatchPreferences(outputs[i], preferences)
<1>. DEFINE M(i) == MatchPreferences(outputs[i], preferences)
            match == [i \in DOMAIN outputs |-> M(i)]
            best == {i \in DOMAIN outputs : \A j \in DOMAIN outputs : ~Beats(match[j], match[i])}
            first == CHOOSE i \in best : \A j \in best : i <= j
<1>1. FirstOfBest(outputs, preferences) =
        [type |-> outputs[first], q |-> match[first].q, specificity |-> match[first].specificity]
  BY Zenon DEF FirstOfBest
<1>. HIDE DEF M
<1>2. \A i \in DOMAIN outputs : match[i] = M(i) /\ Ranked(M(i))
  BY DEF M
<1>. HIDE DEF match
<1>3. best # {}
  <2>. DEFINE all == {match[i] : i \in DOMAIN outputs}
  <2>1. all # {} /\ \A m \in all : Ranked(m)
    BY <1>2
  <2>. HIDE DEF all
  <2>2. PICK m \in all : \A n \in all : ~Beats(n, m)
    BY ONLY <2>1, BestOne
  <2>3. PICK i \in DOMAIN outputs : m = match[i]
    BY <2>2 DEF all
  <2>4. \A j \in DOMAIN outputs : match[j] \in all
    BY DEF all
  <2>. QED  BY <2>2, <2>3, <2>4
<1>4. best \subseteq DOMAIN outputs /\ \A i \in best : \A j \in DOMAIN outputs : ~Beats(match[j], match[i])
  OBVIOUS
<1>5. \A i \in DOMAIN outputs : (\A j \in DOMAIN outputs : ~Beats(match[j], match[i])) => i \in best
  OBVIOUS
<1>. HIDE DEF best
<1>6. best \in SUBSET Nat
  BY <1>4
<1>7. \E i \in best : \A j \in best : i <= j
  BY ONLY <1>3, <1>6, Least
<1>8. first \in best /\ \A j \in best : first <= j
  BY ONLY <1>7
<1>. HIDE DEF first
<1>9. first \in DOMAIN outputs /\ \A j \in DOMAIN outputs : ~Beats(M(j), M(first))
  BY ONLY <1>2, <1>4, <1>8
<1>10. ASSUME NEW j \in DOMAIN outputs, j < first PROVE M(j) # M(first)
  <2>1. j \notin best
    <3>1. j \in Nat /\ first \in Nat
      BY <1>6, <1>8
    <3>. QED  BY ONLY <1>8, <1>10, <3>1
  <2>2. PICK k \in DOMAIN outputs : Beats(match[k], match[j])
    BY ONLY <1>5, <2>1, j \in DOMAIN outputs
  <2>3. Beats(M(k), M(j))
    BY ONLY <1>2, <2>2, j \in DOMAIN outputs
  <2>. QED  BY ONLY <1>9, <2>3, k \in DOMAIN outputs
<1>11. /\ FirstOfBest(outputs, preferences).type = outputs[first]
       /\ FirstOfBest(outputs, preferences).q = M(first).q
       /\ FirstOfBest(outputs, preferences).specificity = M(first).specificity
  BY <1>1, <1>2, <1>9
<1>. HIDE DEF first
<1>. QED  BY ONLY <1>9, <1>10, <1>11 DEF M

LEMMA NegotiationHonours ==
  ASSUME NEW accept, NEW image, image.type \in MediaTypes, NEW preference \in Seq(MediaTypes)
  PROVE  LET offered == PreferredOutputs(image, preference)
             choice == NegotiateOutputFormat(accept, image, preference)
             default == DefaultOutput(image.type)
         IN /\ choice = "refused" <=>
                 HadAnySegment(accept) /\ \A i \in DOMAIN offered : AcceptWeight(accept, offered[i]) = 0
            /\ choice \notin {"refused", "none"} => Favoured(accept, offered, default, choice)
            /\ choice = "none" /\ HadAnySegment(accept) => Favoured(accept, offered, default, default)
<1>. DEFINE offered == PreferredOutputs(image, preference)
            choice == NegotiateOutputFormat(accept, image, preference)
            prefs == AcceptPreferences(accept)
            best == FirstOfBest(offered, prefs)
            M(i) == MatchPreferences(offered[i], prefs)
            W(i) == AcceptWeight(accept, offered[i])
            default == DefaultOutput(image.type)
<1>1. /\ DOMAIN offered \subseteq Nat /\ 1 \in DOMAIN offered /\ \A i \in DOMAIN offered : 1 <= i
      /\ \A i \in DOMAIN offered : offered[i] \in MediaTypes
      /\ \A i, j \in DOMAIN offered : offered[i] = offered[j] => i = j
      /\ \E i \in DOMAIN offered : offered[i] = default
  BY OfferedFacts
<1>2. ASSUME NEW i \in DOMAIN offered
      PROVE  /\ M(i).q = W(i) /\ Ranked(M(i))
             /\ M(i) = [q |-> M(i).q, specificity |-> M(i).specificity]
             /\ \A r : Writes(accept, r, M(i).q) /\ RangeMatches(r, offered[i]) =>
                      M(i).specificity >= Specificity(r)
             /\ M(i).q > 0 => \E r : /\ Writes(accept, r, M(i).q) /\ RangeMatches(r, offered[i])
                                     /\ M(i).specificity = Specificity(r)
  BY MatchFacts
<1>3. choice = CASE ~HadAnySegment(accept)                    -> "none"
                 [] HadAnySegment(accept) /\ prefs = {}       -> "refused"
                 [] prefs # {} /\ best.q = 0                  -> "refused"
                 [] prefs # {} /\ best.q > 0 /\ best.specificity = 0 -> "none"
                 [] OTHER                                     -> best.type
  BY DEF NegotiateOutputFormat
<1>. HIDE DEF offered, choice, prefs, default
<1>4. PICK c \in DOMAIN offered :
        /\ best.type = offered[c] /\ best.q = M(c).q /\ best.specificity = M(c).specificity
        /\ \A j \in DOMAIN offered : ~Beats(M(j), M(c)) /\ (j < c => M(j) # M(c))
  BY ONLY <1>1, <1>2, ChosenFirst
<1>5. prefs = {} => \A i \in DOMAIN offered : W(i) = 0
  <2>. SUFFICES ASSUME prefs = {}, NEW t PROVE AcceptWeight(accept, t) = 0
    OBVIOUS
  <2>0. ASSUME NEW k \in DOMAIN accept, Recognised(accept[k].range), accept[k].q \in 0..1000 PROVE FALSE
    <3>1. [range |-> accept[k].range, q |-> accept[k].q, specificity |-> Specificity(accept[k].range)] \in prefs
      BY ONLY <2>0 DEF AcceptPreferences, prefs
    <3>. QED  BY <3>1
  <2>1. AcceptWeights(accept, t) = {0}
    BY <2>0 DEF AcceptWeights
  <2>. QED  BY ONLY <2>1, WeightFacts
<1>. HIDE DEF best, M, W
<1>. DEFINE q == M(c).q
<1>6. ASSUME NEW j \in DOMAIN offered
      PROVE  /\ M(j).q \in Nat /\ q \in Nat /\ M(j).q <= q
             /\ M(j).specificity \in 0..2
             /\ M(j).q = q => M(j).specificity <= M(c).specificity
  <2>1. /\ M(j).q \in Nat /\ M(c).q \in Nat
        /\ M(j).specificity \in Nat /\ M(c).specificity \in Nat /\ M(j).specificity <= 2
    BY <1>2 DEF Ranked
  <2>2. ~(M(j).q > M(c).q) /\ ~(M(j).q = M(c).q /\ M(j).specificity > M(c).specificity)
    BY <1>4 DEF Beats
  <2>. QED  BY ONLY <2>1, <2>2
<1>7. best.q \in Nat /\ best.type \in MediaTypes /\ best.type \notin {"refused", "none"}
  <2>1. best.q \in Nat /\ best.type \in MediaTypes
    BY <1>1, <1>4, <1>6
  <2>. QED  BY <2>1 DEF MediaTypes
<1>8. /\ choice = "refused" <=> HadAnySegment(accept) /\ (prefs = {} \/ best.q = 0)
      /\ choice = "none" /\ HadAnySegment(accept) => best.q > 0 /\ best.specificity = 0
      /\ choice \notin {"refused", "none"} => choice = best.type /\ best.q > 0 /\ best.specificity # 0
  <2>0. ~HadAnySegment(accept) => prefs = {}
    <3>. SUFFICES ASSUME NEW p \in prefs PROVE HadAnySegment(accept)
      OBVIOUS
    <3>1. PICK k \in DOMAIN accept : Recognised(accept[k].range)
      BY DEF prefs, AcceptPreferences
    <3>2. accept[k].range # "blank"
      BY ONLY <3>1 DEF Recognised
    <3>. QED  BY ONLY <3>2 DEF HadAnySegment
  <2>1. CASE ~HadAnySegment(accept)
    <3>1. choice = "none"
      BY ONLY <1>3, <2>0, <2>1
    <3>. QED  BY ONLY <2>1, <3>1
  <2>2. CASE HadAnySegment(accept) /\ (prefs = {} \/ best.q = 0)
    <3>1. choice = "refused"
      BY ONLY <1>3, <2>2
    <3>. QED  BY ONLY <2>2, <3>1
  <2>3. CASE HadAnySegment(accept) /\ prefs # {} /\ best.q # 0 /\ best.specificity = 0
    <3>0. best.q > 0
      BY ONLY <1>7, <2>3
    <3>1. choice = "none"
      BY ONLY <1>3, <2>3, <3>0
    <3>. QED  BY ONLY <2>3, <3>0, <3>1
  <2>4. CASE HadAnySegment(accept) /\ prefs # {} /\ best.q # 0 /\ best.specificity # 0
    <3>0. best.q > 0
      BY ONLY <1>7, <2>4
    <3>1. choice = best.type
      BY ONLY <1>3, <2>4, <3>0
    <3>. QED  BY ONLY <1>7, <2>4, <3>0, <3>1
  <2>. QED  BY ONLY <2>1, <2>2, <2>3, <2>4, Zenon
\* Nothing has a weight exactly where the best has none.
<1>9. best.q = 0 <=> \A i \in DOMAIN offered : W(i) = 0
  <2>1. ASSUME NEW i \in DOMAIN offered PROVE M(i).q = W(i) /\ M(i).q \in Nat /\ M(i).q <= q
    BY <1>2, <1>6
  <2>2. best.q = q /\ q = W(c) /\ q \in Nat
    BY <1>2, <1>4, <1>6
  <2>3. ASSUME q = 0, NEW i \in DOMAIN offered PROVE W(i) = 0
    <3>1. M(i).q = W(i) /\ M(i).q \in Nat /\ M(i).q <= 0
      BY ONLY <2>1, <2>3
    <3>. QED  BY ONLY <3>1
  <2>. QED  BY ONLY <2>2, <2>3, c \in DOMAIN offered
<1>10. choice = "refused" <=> HadAnySegment(accept) /\ \A i \in DOMAIN offered : W(i) = 0
  BY ONLY <1>5, <1>8, <1>9
\* The offered types that the header names with the greatest weight.
<1>. DEFINE named == {i \in DOMAIN offered : Writes(accept, offered[i], q)}
<1>11. \A t : RangeMatches("any", t) /\ RangeMatches("image", t) /\ RangeMatches(t, t)
  BY DEF RangeMatches
<1>12. /\ Specificity("any") = 0 /\ Specificity("image") = 1
       /\ \A i \in DOMAIN offered : Specificity(offered[i]) = 2
  <2>1. ASSUME NEW i \in DOMAIN offered PROVE offered[i] # "any" /\ offered[i] # "image"
    BY <1>1 DEF MediaTypes
  <2>. QED  BY <2>1 DEF Specificity
<1>13. ASSUME NEW i \in DOMAIN offered, M(i).q = q, q > 0
       PROVE  \/ M(i).specificity = 2 /\ Writes(accept, offered[i], q)
              \/ M(i).specificity = 1 /\ Writes(accept, "image", q)
              \/ M(i).specificity = 0 /\ Writes(accept, "any", q)
  <2>1. PICK r : Writes(accept, r, q) /\ RangeMatches(r, offered[i]) /\ M(i).specificity = Specificity(r)
    BY ONLY <1>2, <1>13
  <2>2. r = "any" \/ r = "image" \/ r = offered[i]
    BY ONLY <2>1 DEF RangeMatches
  <2>. QED  BY ONLY <1>12, <2>1, <2>2, i \in DOMAIN offered
\* What the header writes with a weight gives every type it covers this much.
<1>14. ASSUME NEW i \in DOMAIN offered, NEW r, Writes(accept, r, q), RangeMatches(r, offered[i])
       PROVE  M(i).q = q /\ M(i).specificity >= Specificity(r)
  <2>1. q \in 0..1000
    <3>1. q \in Nat /\ q <= 1000
      BY ONLY <1>2, c \in DOMAIN offered DEF Ranked
    <3>. HIDE DEF q
    <3>. QED  BY ONLY <3>1
  <2>2. q \in AcceptWeights(accept, offered[i])
    <3>. HIDE DEF q
    <3>1. PICK k \in DOMAIN accept : accept[k].range = r /\ Recognised(r) /\ accept[k].q = q
      BY ONLY <1>14 DEF Writes
    <3>2. RangeMatches(accept[k].range, offered[i]) /\ Recognised(accept[k].range) /\ accept[k].q \in 0..1000
      BY ONLY <1>14, <2>1, <3>1
    <3>3. accept[k].q \in AcceptWeights(accept, offered[i])
      BY <3>2 DEF AcceptWeights
    <3>. QED  BY ONLY <3>1, <3>3
  <2>3. q <= W(i)
    BY ONLY <2>2, WeightFacts DEF W
  <2>4. W(i) = M(i).q /\ M(i).q \in Nat /\ q \in Nat /\ M(i).q <= q
    BY ONLY <1>2, <1>6, i \in DOMAIN offered
  <2>5. M(i).q = q
    BY ONLY <2>3, <2>4
  <2>. QED  BY ONLY <1>2, <1>14, <2>5
<1>15. ASSUME NEW i \in named PROVE M(i).q = q /\ M(i).specificity = 2
  <2>1. M(i).q = q /\ M(i).specificity >= 2
    BY ONLY <1>11, <1>12, <1>14, <1>15
  <2>. QED  BY ONLY <1>6, <1>15, <2>1
<1>16. ASSUME NEW t, AcceptWeight(accept, t) = q, q > 0,
              \/ named # {} /\ c \in named /\ (\A j \in named : c <= j) /\ t = offered[c]
              \/ named = {} /\ t = IF Writes(accept, "image", q) THEN offered[1] ELSE default
       PROVE  Favoured(accept, offered, default, t)
  <2>1. \A i \in DOMAIN offered : AcceptWeight(accept, offered[i]) <= q
    BY ONLY <1>2, <1>6 DEF W
  <2>2. ASSUME named # {}, c \in named, \A j \in named : c <= j
        PROVE  (CHOOSE i \in named : \A j \in named : i <= j) = c
    <3>1. ASSUME NEW i \in named, \A j \in named : i <= j PROVE i = c
      <4>1. i \in Nat /\ c \in Nat /\ i <= c /\ c <= i
        BY ONLY <1>1, <2>2, <3>1
      <4>. QED  BY ONLY <4>1
    <3>. HIDE DEF named
    <3>. QED  BY ONLY <2>2, <3>1
  <2>. HIDE DEF q
  <2>3. IF named # {} THEN t = offered[CHOOSE i \in named : \A j \in named : i <= j]
        ELSE t = IF Writes(accept, "image", q) THEN offered[1] ELSE default
    <3>. HIDE DEF named
    <3>. QED  BY ONLY <1>16, <2>2
  <2>. QED  BY ONLY <1>16, <2>1, <2>3, Zenon DEF Favoured
<1>17. q = best.q /\ W(c) = q /\ M(c).specificity \in 0..2 /\ M(c).specificity = best.specificity
  BY ONLY <1>2, <1>4, <1>6, c \in DOMAIN offered
<1>18. ASSUME choice \notin {"refused", "none"} PROVE Favoured(accept, offered, default, choice)
  <2>1. choice = offered[c] /\ q > 0 /\ M(c).specificity # 0 /\ AcceptWeight(accept, choice) = q
    BY ONLY <1>4, <1>8, <1>17, <1>18 DEF W
  <2>2. CASE M(c).specificity = 2
    <3>1. c \in named
      BY ONLY <1>13, <2>1, <2>2, c \in DOMAIN offered
    <3>2. ASSUME NEW j \in named PROVE c <= j
      <4>1. M(j) = M(c)
        BY ONLY <1>2, <1>15, <2>2, j \in named, c \in DOMAIN offered
      <4>2. ~(j < c) /\ j \in Nat /\ c \in Nat
        BY ONLY <1>1, <1>4, <4>1, j \in named, c \in DOMAIN offered
      <4>. QED  BY ONLY <4>2
    <3>. QED  BY ONLY <1>16, <2>1, <3>1, <3>2
  <2>3. CASE M(c).specificity = 1
    <3>1. Writes(accept, "image", q)
      BY ONLY <1>13, <2>1, <2>3, c \in DOMAIN offered
    <3>2. ASSUME NEW j \in DOMAIN offered PROVE M(j) = M(c)
      <4>1. M(j).q = q /\ M(j).specificity >= 1
        BY ONLY <1>11, <1>12, <1>14, <3>1, j \in DOMAIN offered
      <4>2. M(j).specificity = 1
        BY ONLY <1>6, <2>3, <4>1, j \in DOMAIN offered
      <4>. QED  BY ONLY <1>2, <2>3, <4>1, <4>2, j \in DOMAIN offered, c \in DOMAIN offered
    <3>3. named = {}
      <4>. SUFFICES ASSUME NEW j \in named PROVE FALSE
        OBVIOUS
      <4>1. M(j).specificity = 2 /\ M(j) = M(c)
        BY ONLY <1>15, <3>2, j \in named
      <4>. QED  BY ONLY <2>3, <4>1
    <3>4. c = 1
      <4>1. ~(1 < c) /\ 1 <= c /\ c \in Nat
        BY ONLY <1>1, <1>4, <3>2, c \in DOMAIN offered
      <4>. QED  BY ONLY <4>1
    <3>. QED  BY ONLY <1>16, <2>1, <3>1, <3>3, <3>4
  <2>. QED  BY ONLY <1>17, <2>1, <2>2, <2>3
<1>19. ASSUME choice = "none", HadAnySegment(accept) PROVE Favoured(accept, offered, default, default)
  <2>1. q > 0 /\ M(c).specificity = 0
    BY ONLY <1>8, <1>17, <1>19
  <2>2. Writes(accept, "any", q)
    BY ONLY <1>13, <2>1, c \in DOMAIN offered
  <2>3. PICK d \in DOMAIN offered : offered[d] = default
    BY ONLY <1>1
  <2>4. AcceptWeight(accept, default) = q
    BY ONLY <1>2, <1>11, <1>14, <2>2, <2>3 DEF W
  <2>5. named = {}
    <3>. SUFFICES ASSUME NEW j \in named PROVE FALSE
      OBVIOUS
    <3>1. M(j).q = q /\ M(j).specificity = 2 /\ M(j).specificity <= 0
      BY ONLY <1>6, <1>15, <2>1, j \in named
    <3>. QED  BY ONLY <3>1
  <2>6. ~Writes(accept, "image", q)
    <3>. SUFFICES ASSUME Writes(accept, "image", q) PROVE FALSE
      OBVIOUS
    <3>1. M(c).specificity >= 1
      BY ONLY <1>11, <1>12, <1>14, Writes(accept, "image", q), c \in DOMAIN offered
    <3>. QED  BY ONLY <2>1, <3>1
  <2>. QED  BY ONLY <1>16, <2>1, <2>4, <2>5, <2>6
<1>. QED  BY <1>10, <1>18, <1>19 DEF W, offered, choice, default

\* AcceptHonoured, of one answer.
Honours(accept, options, image, status, format) ==
  LET offered == PreferredOutputs(image, config.preference)
      asked == HadAnySegment(accept) /\ options.format = "none" /\ config.negotiates
  IN /\ status = 406 <=> asked /\ \A i \in DOMAIN offered : AcceptWeight(accept, offered[i]) = 0
     /\ asked /\ status \in {200, 304} => Favoured(accept, offered, DefaultOutput(image.type), format)

\* The answer is of the format it was settled on, and no 406.
LEMMA RepresentedIs ==
  ASSUME NEW request, NEW policy, NEW work, NEW image, NEW format
  PROVE  LET answer == Represented(request, policy, work, image, format)
         IN answer.status # 406 /\ (answer.status \in {200, 304} => answer.format = format)
<1>1. \A o : TransformStatus(o, image) \in {415, 400, 200}
  BY DEF TransformStatus
<1>2. \A status, kind : Answer(status, kind, work).status = status
  BY DEF Answer
<1>3. ASSUME NEW status, NEW kind, NEW v
      PROVE  /\ [Answer(status, kind, work) EXCEPT !.vary = v, !.format = format].status = status
             /\ [Answer(status, kind, work) EXCEPT !.vary = v, !.format = format].format = format
  BY DEF Answer
<1>. DEFINE status == IF image.type = "svg" /\ work.watermark.url # Absent THEN 400
                      ELSE TransformStatus([work.options EXCEPT !.format = format], image)
            answer == Represented(request, policy, work, image, format)
<1>4. status \in {415, 400, 200}
  BY <1>1
<1>5. CASE status # 200
  <2>1. answer = Answer(status, "problem", work)
    BY <1>5 DEF Represented
  <2>. QED  BY <1>2, <1>4, <1>5, <2>1
<1>6. CASE status = 200
  <2>. DEFINE fresh == policy = "public" /\ IfNoneMatchMatches(request.ifNoneMatch, "current")
              mayVary == work.options.format = "none" /\ config.negotiates
              s == IF fresh THEN 304 ELSE 200
              kind == IF fresh THEN "none" ELSE "image"
              v == ImageHeaders(format, policy, mayVary).vary
  <2>1. answer = [Answer(s, kind, work) EXCEPT !.vary = v, !.format = format]
    BY <1>6, Zenon DEF Represented
  <2>2. s \in {200, 304}
    OBVIOUS
  <2>. HIDE DEF answer, s, kind, v
  <2>3. answer.status = s /\ answer.format = format
    BY ONLY <1>3, <2>1
  <2>. QED  BY <2>2, <2>3 DEF answer
<1>. QED  BY <1>5, <1>6

LEMMA ImageHonours ==
  ASSUME config \in Configs, NEW request, NEW policy, NEW work, work.source.reference \in DOMAIN Images
  PROVE  Honours(request.accept, work.options, Images[work.source.reference],
                 ImageAnswer(request, policy, work).status, ImageAnswer(request, policy, work).format)
<1>. DEFINE image == Images[work.source.reference]
            offered == PreferredOutputs(image, config.preference)
            negotiated == NegotiateOutputFormat(request.accept, image, config.preference)
            choice == IF work.options.format = "none" /\ config.negotiates THEN negotiated ELSE "none"
            answer == ImageAnswer(request, policy, work)
            default == DefaultOutput(image.type)
<1>1. image.type \in MediaTypes /\ config.preference \in Seq(MediaTypes)
  BY InputAssumption
<1>2. /\ negotiated = "refused" <=>
           HadAnySegment(request.accept) /\ \A i \in DOMAIN offered : AcceptWeight(request.accept, offered[i]) = 0
      /\ negotiated \notin {"refused", "none"} => Favoured(request.accept, offered, default, negotiated)
      /\ negotiated = "none" /\ HadAnySegment(request.accept) => Favoured(request.accept, offered, default, default)
  BY <1>1, NegotiationHonours
<1>3. answer = Negotiated(request, policy, work, image, choice)
  BY DEF ImageAnswer
<1>. HIDE DEF negotiated, image, offered, answer, default
<1>4. CASE choice = "refused"
  <2>1. answer.status = 406
    BY <1>3, <1>4 DEF Negotiated, Answer
  <2>2. work.options.format = "none" /\ config.negotiates /\ negotiated = "refused"
    BY <1>4
  <2>. QED  BY ONLY <1>2, <2>1, <2>2 DEF Honours, offered, image, answer
<1>5. CASE choice # "refused"
  <2>. DEFINE format == IF choice = "none" THEN OutputFormat(work.options, image.type) ELSE choice
  <2>1. answer = Represented(request, policy, work, image, format)
    BY <1>3, <1>5 DEF Negotiated
  <2>2. answer.status # 406 /\ (answer.status \in {200, 304} => answer.format = format)
    BY <2>1, RepresentedIs
  <2>3. ASSUME work.options.format = "none", config.negotiates, HadAnySegment(request.accept)
        PROVE  /\ Favoured(request.accept, offered, default, format)
               /\ ~\A i \in DOMAIN offered : AcceptWeight(request.accept, offered[i]) = 0
    <3>1. choice = negotiated /\ format = IF choice = "none" THEN default ELSE choice
      BY <2>3 DEF OutputFormat, default
    <3>. HIDE DEF choice, format
    <3>. QED  BY ONLY <1>2, <1>5, <2>3, <3>1
  <2>. HIDE DEF format
  <2>. QED  BY ONLY <2>2, <2>3 DEF Honours, offered, image, answer, default
<1>. QED  BY <1>4, <1>5

\* The Accept header is honoured: where the server negotiates, an image is in
\* the format the header asks for (the greatest weight, then the more specific
\* range, then the server's order; the input's own format where */* alone gives
\* the weight), and 406 is answered if and only if nothing offered has a weight
\* (negotiate.rs 20-73, handler.rs 1525-1545).
THEOREM AcceptIsHonoured == Spec => []AcceptHonoured
<1>1. Init => config \in Configs /\ AcceptHonoured
  BY DEF Init, NoExchange, AcceptHonoured
<1>2. ASSUME config \in Configs, AcceptHonoured, [Next]_vars
      PROVE  (config \in Configs /\ AcceptHonoured)'
  <2>1. ASSUME NEW w \in Workers, Serve(w) PROVE AcceptHonoured' /\ config' = config
    <3>0. config' = config
      BY <2>1 DEF Serve
    <3>1. PICK input \in Inputs(config), now \in Clock, allowed \in BOOLEAN :
            /\ exchange'.input = input
            /\ exchange'.answer = Given(input, now, allowed)
      BY <2>1, Served
    <3>. DEFINE answer == exchange'.answer
                accept == input.request.accept
                image == Images[answer.work.source.reference]
    <3>. SUFFICES ASSUME answer.work.done, answer.work.source.reference \in DOMAIN Images
                  PROVE  AcceptHonoured'
      BY <3>0 DEF AcceptHonoured
    <3>2. answer = RouteRequest(input.request, now)
      BY <3>1, ProblemWork DEF Given
    <3>3. PICK policy : answer = ImageAnswer(input.request, policy, answer.work)
      BY <3>2, RouteLeave DEF Imaged
    <3>4. Honours(accept, answer.work.options, image, answer.status, answer.format)
      BY ONLY config \in Configs, answer.work.source.reference \in DOMAIN Images, <3>3, ImageHonours
    <3>. QED  BY ONLY <3>0, <3>1, <3>4 DEF AcceptHonoured, Honours, HadAnySegment
  <2>2. ASSUME NEW w \in Workers, RefuseHead(w) \/ RecordStep(w) PROVE AcceptHonoured' /\ config' = config
    BY <2>2 DEF RefuseHead, RecordStep, NoExchange, AcceptHonoured
  <2>3. CASE UNCHANGED vars
    BY <1>2, <2>3 DEF vars, AcceptHonoured
  <2>. QED  BY <1>2, <2>1, <2>2, <2>3 DEF Next
<1>. QED  BY <1>1, <1>2, PTL DEF Spec

-----------------------------------------------------------------------------
(* The metrics *)

\* The steps at which a worker has counted its answer in the total, under its
\* route and under its status, and is adding its duration.
AfterTotal == {"route", "status", "write", "load", "swap", "buckets"}
AfterRoute == {"status", "write", "load", "swap", "buckets"}
AfterStatus == {"write", "load", "swap", "buckets"}
Observing == {"load", "swap", "buckets"}

\* What a worker is recording.
Shape(m) ==
  \/ m = Idle
  \/ /\ m.at \in {"total"} \cup AfterTotal
     /\ m.route \in MetricRoutes
     /\ m = [x \in DOMAIN m |-> m[x]] /\ {"at", "route", "status"} \subseteq DOMAIN m
     /\ m.at \in Observing => "duration" \in DOMAIN m /\ m.duration \in Nat

\* The workers that were counted for an answer not yet in the history rec: by
\* the total, a route, a status, the count and the sum of a histogram.
TotalAhead(rec) == {w \in Workers : rec[w].at \in AfterTotal}
RouteAhead(rec, r) == {w \in Workers : rec[w].at \in AfterRoute /\ rec[w].route = r}
StatusAhead(rec, s) ==
  {w \in Workers : rec[w].at \in AfterStatus /\ StatusCounter(rec[w].status) = s}
CountAhead(rec, r) == {w \in Workers : rec[w].at \in Observing /\ rec[w].route = r}
SumAhead(rec, r) == {w \in Workers : rec[w].at = "buckets" /\ rec[w].route = r}

\* The answers of the history that belong to a counter.
OnRoute(log, r) == {i \in DOMAIN log : log[i].route = r}
WithStatus(log, s) == {i \in DOMAIN log : StatusCounter(log[i].status) = s}
Observed(log, r) == {i \in DOMAIN log : log[i].route = r /\ log[i].observed # <<>>}
Within(log, r, bound) == {i \in Observed(log, r) : log[i].observed[1] <= bound}

\* u adds up the durations observed on a route, g those of sets of workers.
Duration(e, r) == IF e.route = r /\ e.observed # <<>> THEN e.observed[1] ELSE 0
AddsLog(u, log, r) ==
  /\ u \in [0..Len(log) -> Nat] /\ u[0] = 0
  /\ \A i \in 1..Len(log) : u[i] = u[i - 1] + Duration(log[i], r)
AddsWorkers(g, rec, P) ==
  /\ g \in [SUBSET Workers -> Nat] /\ g[{}] = 0
  /\ \A T \in SUBSET P : \A v \in T : g[T] = rec[v].duration + g[T \ {v}]

SumIs(total, log, rec, r) ==
  \E u, g : /\ AddsLog(u, log, r) /\ AddsWorkers(g, rec, SumAhead(rec, r))
            /\ total = u[Len(log)] + g[SumAhead(rec, r)]

RecordTypes ==
  /\ recording = [w \in Workers |-> recording[w]]
  /\ \A w \in Workers : Shape(recording[w])
  /\ \E S : recorded \in Seq(S)
  /\ statusTotal \in [StatusLabels -> Nat]
  /\ routeTotal \in [MetricRoutes -> Nat] /\ count \in [MetricRoutes -> Nat]
  /\ sum \in [MetricRoutes -> Nat]
  /\ buckets \in [MetricRoutes -> [DOMAIN BucketBounds -> Nat]]

\* Every counter is what the history says, plus the workers that are ahead of
\* the history with it.
TotalExact == requestsTotal = Len(recorded) + Cardinality(TotalAhead(recording))
StatusExact ==
  \A s \in StatusLabels : statusTotal[s] = Cardinality(WithStatus(recorded, s))
                                           + Cardinality(StatusAhead(recording, s))
RouteExact ==
  \A r \in MetricRoutes : routeTotal[r] = Cardinality(OnRoute(recorded, r))
                                          + Cardinality(RouteAhead(recording, r))
CountExact ==
  \A r \in MetricRoutes : count[r] = Cardinality(Observed(recorded, r))
                                     + Cardinality(CountAhead(recording, r))
SumExact == \A r \in MetricRoutes : SumIs(sum[r], recorded, recording, r)
BucketsExact ==
  \A r \in MetricRoutes : \A i \in DOMAIN BucketBounds :
    buckets[r][i] = Cardinality(Within(recorded, r, BucketBounds[i]))

MetricsInv ==
  /\ RecordTypes /\ TotalExact /\ StatusExact /\ RouteExact
  /\ CountExact /\ SumExact /\ BucketsExact

-----------------------------------------------------------------------------

\* Two finite sets that differ at most in x.
LEMMA DifferInOne ==
  ASSUME NEW S, NEW T, NEW x, IsFiniteSet(S), S \ {x} = T \ {x}
  PROVE  /\ Cardinality(S) \in Nat /\ Cardinality(T) \in Nat
         /\ (x \in S <=> x \in T) => Cardinality(T) = Cardinality(S)
         /\ (x \notin S /\ x \in T) => Cardinality(T) = Cardinality(S) + 1
         /\ (x \in S /\ x \notin T) => Cardinality(S) = Cardinality(T) + 1
<1>. DEFINE R == S \ {x}
<1>1. IsFiniteSet(R) /\ Cardinality(R) \in Nat
  BY FS_RemoveElement, FS_CardinalityType
<1>2. (x \in S => S = R \cup {x}) /\ (x \notin S => S = R)
  OBVIOUS
<1>3. (x \in T => T = R \cup {x}) /\ (x \notin T => T = R)
  OBVIOUS
<1>4. x \notin R
  OBVIOUS
<1>. HIDE DEF R
<1>5. Cardinality(R \cup {x}) = Cardinality(R) + 1
  BY <1>1, <1>4, FS_AddElement
<1>6. Cardinality(S) = IF x \in S THEN Cardinality(R) + 1 ELSE Cardinality(R)
  BY <1>2, <1>5
<1>7. Cardinality(T) = IF x \in T THEN Cardinality(R) + 1 ELSE Cardinality(R)
  BY <1>3, <1>5
<1>. QED  BY <1>1, <1>6, <1>7

\* One worker moves, the others stay.
LEMMA OneMoves ==
  ASSUME NEW rec, rec = [w \in Workers |-> rec[w]], NEW w \in Workers, NEW m,
         NEW new, new = [rec EXCEPT ![w] = m]
  PROVE  /\ new = [v \in Workers |-> new[v]]
         /\ new[w] = m /\ \A v \in Workers \ {w} : new[v] = rec[v]
OBVIOUS

\* The history grows by one answer.
LEMMA LogGrows ==
  ASSUME NEW S, NEW log \in Seq(S), NEW e, NEW new, new = Append(log, e)
  PROVE  /\ Len(log) \in Nat /\ Len(new) = Len(log) + 1
         /\ DOMAIN log = 1..Len(log) /\ DOMAIN new = 1..(Len(log) + 1)
         /\ new[Len(log) + 1] = e /\ \A i \in 1..Len(log) : new[i] = log[i]
         /\ new \in Seq(S \cup {e})
<1>1. log \in Seq(S \cup {e}) /\ e \in S \cup {e}
  OBVIOUS
<1>. QED  BY <1>1

Bit(b) == IF b THEN 1 ELSE 0

\* What a set of answers becomes when the history may have grown.
Grows(D, new, x) == IsFiniteSet(D) /\ D \ {x} = new \ {x} /\ x \notin D

LEMMA LogSets ==
  ASSUME NEW S, NEW log \in Seq(S), NEW new, new = log \/ \E e : new = Append(log, e),
         NEW x, x = Len(log) + 1
  PROVE  /\ \A r : Grows(OnRoute(log, r), OnRoute(new, r), x)
         /\ \A s : Grows(WithStatus(log, s), WithStatus(new, s), x)
         /\ \A r : Grows(Observed(log, r), Observed(new, r), x)
         /\ \A r, b : Grows(Within(log, r, b), Within(new, r, b), x)
<1>1. /\ Len(log) \in Nat /\ DOMAIN log = 1..Len(log) /\ x \notin DOMAIN log
      /\ DOMAIN new \ {x} = DOMAIN log /\ \A i \in DOMAIN log : new[i] = log[i]
  <2>1. CASE new = log
    <3>1. Len(log) \in Nat /\ DOMAIN log = 1..Len(log)
      OBVIOUS
    <3>2. x \notin DOMAIN log
      BY <3>1
    <3>. QED  BY <2>1, <3>1, <3>2
  <2>2. ASSUME NEW e, new = Append(log, e)
        PROVE  /\ Len(log) \in Nat /\ DOMAIN log = 1..Len(log) /\ x \notin DOMAIN log
               /\ DOMAIN new \ {x} = DOMAIN log /\ \A i \in DOMAIN log : new[i] = log[i]
    <3>1. /\ Len(log) \in Nat /\ DOMAIN log = 1..Len(log) /\ DOMAIN new = 1..(Len(log) + 1)
          /\ \A i \in 1..Len(log) : new[i] = log[i]
      BY <2>2, LogGrows
    <3>. QED  BY <3>1
  <2>. QED  BY <2>1, <2>2
<1>2. IsFiniteSet(DOMAIN log)
  <2>1. IsFiniteSet(1..Len(log))
    BY <1>1, FS_Interval
  <2>. QED  BY <1>1, <2>1
<1>3. ASSUME NEW D \in SUBSET DOMAIN log, NEW E, E \ {x} = D PROVE Grows(D, E, x)
  <2>1. IsFiniteSet(D)
    BY <1>2, FS_Subset
  <2>. QED  BY <1>1, <1>3, <2>1 DEF Grows
<1>4. ASSUME NEW r PROVE Grows(OnRoute(log, r), OnRoute(new, r), x)
  <2>1. OnRoute(log, r) \in SUBSET DOMAIN log /\ OnRoute(new, r) \ {x} = OnRoute(log, r)
    BY <1>1 DEF OnRoute
  <2>. QED  BY <1>3, <2>1
<1>5. ASSUME NEW s PROVE Grows(WithStatus(log, s), WithStatus(new, s), x)
  <2>1. WithStatus(log, s) \in SUBSET DOMAIN log /\ WithStatus(new, s) \ {x} = WithStatus(log, s)
    BY <1>1 DEF WithStatus
  <2>. QED  BY <1>3, <2>1
<1>6. ASSUME NEW r PROVE Grows(Observed(log, r), Observed(new, r), x)
  <2>1. Observed(log, r) \in SUBSET DOMAIN log /\ Observed(new, r) \ {x} = Observed(log, r)
    BY <1>1 DEF Observed
  <2>. QED  BY <1>3, <2>1
<1>7. ASSUME NEW r, NEW b PROVE Grows(Within(log, r, b), Within(new, r, b), x)
  <2>1. Within(log, r, b) \in SUBSET DOMAIN log /\ Within(new, r, b) \ {x} = Within(log, r, b)
    BY <1>1 DEF Within, Observed
  <2>. QED  BY <1>3, <2>1
<1>. QED  BY <1>4, <1>5, <1>6, <1>7

\* What a set of workers becomes when w moves and the others stay.
LEMMA AheadSets ==
  ASSUME NEW rec, NEW new, NEW w \in Workers, \A v \in Workers \ {w} : new[v] = rec[v]
  PROVE  /\ TotalAhead(rec) \ {w} = TotalAhead(new) \ {w}
         /\ \A s : StatusAhead(rec, s) \ {w} = StatusAhead(new, s) \ {w}
         /\ \A r : RouteAhead(rec, r) \ {w} = RouteAhead(new, r) \ {w}
         /\ \A r : CountAhead(rec, r) \ {w} = CountAhead(new, r) \ {w}
         /\ \A r : SumAhead(rec, r) \ {w} = SumAhead(new, r) \ {w}
<1>1. TotalAhead(rec) \ {w} = TotalAhead(new) \ {w}
  BY DEF TotalAhead
<1>2. \A s : StatusAhead(rec, s) \ {w} = StatusAhead(new, s) \ {w}
  BY DEF StatusAhead
<1>3. \A r : RouteAhead(rec, r) \ {w} = RouteAhead(new, r) \ {w}
  BY DEF RouteAhead
<1>4. \A r : CountAhead(rec, r) \ {w} = CountAhead(new, r) \ {w}
  BY DEF CountAhead
<1>5. \A r : SumAhead(rec, r) \ {w} = SumAhead(new, r) \ {w}
  BY DEF SumAhead
<1>. QED  BY <1>1, <1>2, <1>3, <1>4, <1>5

\* A counter stays exact when it grows by what the history and the workers
\* ahead of it grow together.
LEMMA Balance ==
  ASSUME NEW D, NEW newD, NEW x, Grows(D, newD, x),
         NEW P \in SUBSET Workers, NEW newP, NEW w, P \ {w} = newP \ {w},
         NEW c, c = Cardinality(D) + Cardinality(P),
         NEW newC, newC = c + Bit(x \in newD) + Bit(w \in newP) - Bit(w \in P)
  PROVE  newC = Cardinality(newD) + Cardinality(newP)
<1>1. /\ Cardinality(D) \in Nat
      /\ Cardinality(newD) = Cardinality(D) + Bit(x \in newD)
  BY DifferInOne DEF Grows, Bit
<1>2. IsFiniteSet(P)
  BY MetricsAssumption, FS_Subset
<1>3. /\ Cardinality(P) \in Nat /\ Cardinality(newP) \in Nat
      /\ Cardinality(newP) + Bit(w \in P) = Cardinality(P) + Bit(w \in newP)
  <2>1. /\ Cardinality(P) \in Nat /\ Cardinality(newP) \in Nat
        /\ (w \in P <=> w \in newP) => Cardinality(newP) = Cardinality(P)
        /\ (w \notin P /\ w \in newP) => Cardinality(newP) = Cardinality(P) + 1
        /\ (w \in P /\ w \notin newP) => Cardinality(P) = Cardinality(newP) + 1
    BY <1>2, DifferInOne
  <2>. QED  BY <2>1 DEF Bit
<1>4. Bit(x \in newD) \in Nat /\ Bit(w \in newP) \in Nat /\ Bit(w \in P) \in Nat
  BY DEF Bit
<1>. QED  BY <1>1, <1>3, <1>4

\* One worker takes a step, and the history may grow.
Moved(w) ==
  /\ \A v \in Workers \ {w} : recording'[v] = recording[v]
  /\ recorded' = recorded \/ \E e : recorded' = Append(recorded, e)

LEMMA TotalStep ==
  ASSUME TotalExact, NEW w \in Workers, Moved(w), \E S : recorded \in Seq(S),
         requestsTotal' = requestsTotal + (Len(recorded') - Len(recorded))
           + Bit(w \in TotalAhead(recording')) - Bit(w \in TotalAhead(recording))
  PROVE  TotalExact'
<1>1. TotalAhead(recording) \ {w} = TotalAhead(recording') \ {w}
  BY AheadSets DEF Moved
<1>2. IsFiniteSet(TotalAhead(recording))
  BY MetricsAssumption, FS_Subset DEF TotalAhead
<1>. DEFINE P == TotalAhead(recording)  Q == TotalAhead(recording')
<1>. HIDE DEF P, Q
<1>3. /\ Cardinality(P) \in Nat /\ Cardinality(Q) \in Nat
      /\ (w \in P <=> w \in Q) => Cardinality(Q) = Cardinality(P)
      /\ (w \notin P /\ w \in Q) => Cardinality(Q) = Cardinality(P) + 1
      /\ (w \in P /\ w \notin Q) => Cardinality(P) = Cardinality(Q) + 1
  BY <1>1, <1>2, DifferInOne DEF P, Q
<1>4. Len(recorded) \in Nat /\ Len(recorded') \in Nat
  <2>1. PICK S : recorded \in Seq(S)
    OBVIOUS
  <2>2. ASSUME NEW e, recorded' = Append(recorded, e) PROVE Len(recorded') \in Nat
    BY <2>1, <2>2, LogGrows
  <2>. QED  BY <2>1, <2>2 DEF Moved
<1>5. requestsTotal = Len(recorded) + Cardinality(P)
  BY DEF TotalExact, P
<1>6. requestsTotal' = requestsTotal + (Len(recorded') - Len(recorded)) + Bit(w \in Q) - Bit(w \in P)
  BY DEF P, Q
<1>7. Cardinality(Q) + Bit(w \in P) = Cardinality(P) + Bit(w \in Q)
  BY <1>3 DEF Bit
<1>8. Bit(w \in Q) \in Nat /\ Bit(w \in P) \in Nat
  BY DEF Bit
<1>9. requestsTotal' = Len(recorded') + Cardinality(Q)
  <2>. DEFINE p == Cardinality(P)  q == Cardinality(Q)  a == Bit(w \in P)  b == Bit(w \in Q)
              l == Len(recorded)  k == Len(recorded')
  <2>1. p \in Nat /\ q \in Nat /\ a \in Nat /\ b \in Nat /\ l \in Nat /\ k \in Nat
    BY ONLY <1>3, <1>4, <1>8
  <2>2. requestsTotal = l + p /\ requestsTotal' = requestsTotal + (k - l) + b - a /\ q + a = p + b
    BY ONLY <1>5, <1>6, <1>7
  <2>. HIDE DEF p, q, a, b, l, k
  <2>3. requestsTotal' = k + q
    BY ONLY <2>1, <2>2
  <2>. QED  BY ONLY <2>3 DEF k, q
<1>. QED  BY <1>9 DEF TotalExact, Q

LEMMA StatusStep ==
  ASSUME StatusExact, NEW w \in Workers, Moved(w), \E S : recorded \in Seq(S),
         \A s \in StatusLabels : statusTotal'[s] = statusTotal[s]
           + Bit(Len(recorded) + 1 \in WithStatus(recorded', s))
           + Bit(w \in StatusAhead(recording', s)) - Bit(w \in StatusAhead(recording, s))
  PROVE  StatusExact'
<1>1. SUFFICES ASSUME NEW s \in StatusLabels
               PROVE  statusTotal'[s] = Cardinality(WithStatus(recorded', s))
                                        + Cardinality(StatusAhead(recording', s))
  BY DEF StatusExact
<1>2. StatusAhead(recording, s) \ {w} = StatusAhead(recording', s) \ {w}
  BY AheadSets DEF Moved
<1>3. Grows(WithStatus(recorded, s), WithStatus(recorded', s), Len(recorded) + 1)
  BY LogSets DEF Moved
<1>4. StatusAhead(recording, s) \in SUBSET Workers
  BY DEF StatusAhead
<1>5. statusTotal[s] = Cardinality(WithStatus(recorded, s)) + Cardinality(StatusAhead(recording, s))
  BY DEF StatusExact
<1>. QED  BY <1>2, <1>3, <1>4, <1>5, Balance

LEMMA RouteStep ==
  ASSUME RouteExact, NEW w \in Workers, Moved(w), \E S : recorded \in Seq(S),
         \A r \in MetricRoutes : routeTotal'[r] = routeTotal[r]
           + Bit(Len(recorded) + 1 \in OnRoute(recorded', r))
           + Bit(w \in RouteAhead(recording', r)) - Bit(w \in RouteAhead(recording, r))
  PROVE  RouteExact'
<1>1. SUFFICES ASSUME NEW r \in MetricRoutes
               PROVE  routeTotal'[r] = Cardinality(OnRoute(recorded', r))
                                       + Cardinality(RouteAhead(recording', r))
  BY DEF RouteExact
<1>2. RouteAhead(recording, r) \ {w} = RouteAhead(recording', r) \ {w}
  BY AheadSets DEF Moved
<1>3. Grows(OnRoute(recorded, r), OnRoute(recorded', r), Len(recorded) + 1)
  BY LogSets DEF Moved
<1>4. RouteAhead(recording, r) \in SUBSET Workers
  BY DEF RouteAhead
<1>5. routeTotal[r] = Cardinality(OnRoute(recorded, r)) + Cardinality(RouteAhead(recording, r))
  BY DEF RouteExact
<1>. QED  BY <1>2, <1>3, <1>4, <1>5, Balance

LEMMA CountStep ==
  ASSUME CountExact, NEW w \in Workers, Moved(w), \E S : recorded \in Seq(S),
         \A r \in MetricRoutes : count'[r] = count[r]
           + Bit(Len(recorded) + 1 \in Observed(recorded', r))
           + Bit(w \in CountAhead(recording', r)) - Bit(w \in CountAhead(recording, r))
  PROVE  CountExact'
<1>1. SUFFICES ASSUME NEW r \in MetricRoutes
               PROVE  count'[r] = Cardinality(Observed(recorded', r))
                                  + Cardinality(CountAhead(recording', r))
  BY DEF CountExact
<1>2. CountAhead(recording, r) \ {w} = CountAhead(recording', r) \ {w}
  BY AheadSets DEF Moved
<1>3. Grows(Observed(recorded, r), Observed(recorded', r), Len(recorded) + 1)
  BY LogSets DEF Moved
<1>4. CountAhead(recording, r) \in SUBSET Workers
  BY DEF CountAhead
<1>5. count[r] = Cardinality(Observed(recorded, r)) + Cardinality(CountAhead(recording, r))
  BY DEF CountExact
<1>. QED  BY <1>2, <1>3, <1>4, <1>5, Balance

LEMMA BucketsStep ==
  ASSUME BucketsExact, NEW w \in Workers, Moved(w), \E S : recorded \in Seq(S),
         \A r \in MetricRoutes : \A i \in DOMAIN BucketBounds : buckets'[r][i] = buckets[r][i]
           + Bit(Len(recorded) + 1 \in Within(recorded', r, BucketBounds[i]))
  PROVE  BucketsExact'
<1>1. SUFFICES ASSUME NEW r \in MetricRoutes, NEW i \in DOMAIN BucketBounds
               PROVE  buckets'[r][i] = Cardinality(Within(recorded', r, BucketBounds[i]))
  BY DEF BucketsExact
<1>. DEFINE x == Len(recorded) + 1
            D == Within(recorded, r, BucketBounds[i])
            E == Within(recorded', r, BucketBounds[i])
<1>3. Grows(D, E, x)
  BY LogSets DEF Moved
<1>5. buckets[r][i] = Cardinality(D) /\ buckets'[r][i] = buckets[r][i] + Bit(x \in E)
  BY DEF BucketsExact
<1>. HIDE DEF x, D, E
<1>6. Cardinality(D) \in Nat /\ Cardinality(E) = Cardinality(D) + Bit(x \in E)
  BY <1>3, DifferInOne DEF Grows, Bit
<1>. QED  BY <1>5, <1>6 DEF E

\* The sum: a worker that is not ahead with it moves, an answer without a
\* duration on the route is recorded, a worker adds its duration, and the
\* answer that the duration belongs to is recorded.
LEMMA LogAdds ==
  ASSUME NEW S, NEW log \in Seq(S), NEW e, NEW r, NEW u, AddsLog(u, log, r),
         Duration(e, r) \in Nat
  PROVE  \E v : AddsLog(v, Append(log, e), r)
                /\ v[Len(Append(log, e))] = u[Len(log)] + Duration(e, r)
<1>. DEFINE d == Duration(e, r)
            new == Append(log, e)
            n == Len(log)
            v == [i \in 0..(n + 1) |-> IF i = n + 1 THEN u[n] + d ELSE u[i]]
<1>1. /\ n \in Nat /\ Len(new) = n + 1
      /\ new[n + 1] = e /\ \A i \in 1..n : new[i] = log[i]
  BY LogGrows
<1>2. u \in [0..n -> Nat] /\ u[0] = 0 /\ \A i \in 1..n : u[i] = u[i - 1] + Duration(log[i], r)
  BY DEF AddsLog
<1>. HIDE DEF n, new
<1>3. v \in [0..(n + 1) -> Nat] /\ v[0] = 0 /\ v[n + 1] = u[n] + d /\ \A i \in 0..n : v[i] = u[i]
  BY <1>1, <1>2
<1>4. Duration(new[n + 1], r) = d /\ \A i \in 1..n : Duration(new[i], r) = Duration(log[i], r)
  BY <1>1
<1>. HIDE DEF v
<1>5. ASSUME NEW i \in 1..(n + 1) PROVE v[i] = v[i - 1] + Duration(new[i], r)
  <2>1. CASE i = n + 1
    <3>1. i - 1 = n /\ n \in 0..n
      BY <1>1, <2>1
    <3>. QED  BY <1>3, <1>4, <2>1, <3>1
  <2>2. CASE i # n + 1
    <3>1. i \in 1..n /\ i \in 0..n /\ i - 1 \in 0..n
      BY <1>1, <2>2
    <3>. QED  BY <1>2, <1>3, <1>4, <3>1
  <2>. QED  BY <2>1, <2>2
<1>6. AddsLog(v, new, r) /\ v[Len(new)] = u[n] + d
  BY <1>1, <1>3, <1>5 DEF AddsLog
<1>. QED  BY <1>6 DEF new, n

LEMMA SumKept ==
  ASSUME NEW total, NEW log, NEW rec, NEW new, NEW r, SumIs(total, log, rec, r),
         SumAhead(new, r) = SumAhead(rec, r),
         \A v \in SumAhead(rec, r) : new[v].duration = rec[v].duration
  PROVE  SumIs(total, log, new, r)
<1>1. PICK u, g : /\ AddsLog(u, log, r) /\ AddsWorkers(g, rec, SumAhead(rec, r))
                  /\ total = u[Len(log)] + g[SumAhead(rec, r)]
  BY DEF SumIs
<1>2. AddsWorkers(g, new, SumAhead(rec, r))
  BY <1>1 DEF AddsWorkers
<1>. QED  BY <1>1, <1>2 DEF SumIs

LEMMA SumUnobserved ==
  ASSUME NEW S, NEW log \in Seq(S), NEW e, NEW total, NEW rec, NEW r, SumIs(total, log, rec, r),
         e.route # r \/ e.observed = <<>>
  PROVE  SumIs(total, Append(log, e), rec, r)
<1>1. PICK u, g : /\ AddsLog(u, log, r) /\ AddsWorkers(g, rec, SumAhead(rec, r))
                  /\ total = u[Len(log)] + g[SumAhead(rec, r)]
  BY DEF SumIs
<1>2. PICK v : AddsLog(v, Append(log, e), r) /\ v[Len(Append(log, e))] = u[Len(log)] + 0
  <2>1. Duration(e, r) = 0
    BY DEF Duration
  <2>. QED  BY <1>1, <2>1, LogAdds
<1>3. u[Len(log)] \in Nat
  <2>1. Len(log) \in 0..Len(log)
    OBVIOUS
  <2>. QED  BY <1>1, <2>1 DEF AddsLog
<1>4. v[Len(Append(log, e))] = u[Len(log)]
  BY <1>2, <1>3
<1>5. total = v[Len(Append(log, e))] + g[SumAhead(rec, r)]
  BY <1>1, <1>4
<1>. QED  BY <1>1, <1>2, <1>5 DEF SumIs

LEMMA SumAdded ==
  ASSUME NEW S, NEW log \in Seq(S), NEW total, NEW rec, NEW r, SumIs(total, log, rec, r),
         NEW w \in Workers, w \notin SumAhead(rec, r), NEW new,
         \A v \in Workers \ {w} : new[v] = rec[v],
         w \in SumAhead(new, r), \A v \in SumAhead(new, r) : new[v].duration \in Nat
  PROVE  SumIs(total + new[w].duration, log, new, r)
<1>. DEFINE P == SumAhead(rec, r)
            Q == SumAhead(new, r)
            d == new[w].duration
<1>1. PICK u, g : /\ AddsLog(u, log, r) /\ AddsWorkers(g, rec, P)
                  /\ total = u[Len(log)] + g[P]
  BY DEF SumIs
<1>2. /\ P \in SUBSET Workers /\ Q \in SUBSET Workers /\ w \notin P /\ Q = P \cup {w} /\ P = Q \ {w}
      /\ d \in Nat /\ \A v \in P : new[v].duration = rec[v].duration
  <2>1. P \ {w} = Q \ {w}
    BY AheadSets
  <2>2. P \in SUBSET Workers /\ Q \in SUBSET Workers
    BY DEF SumAhead
  <2>. QED  BY <2>1, <2>2
<1>3. /\ g \in [SUBSET Workers -> Nat] /\ g[{}] = 0
      /\ \A T \in SUBSET P : \A v \in T : g[T] = rec[v].duration + g[T \ {v}]
  BY <1>1 DEF AddsWorkers
<1>. DEFINE h == [T \in SUBSET Workers |-> IF w \in T THEN d + g[T \ {w}] ELSE g[T]]
<1>. HIDE DEF P, Q, d
<1>4. h \in [SUBSET Workers -> Nat] /\ h[{}] = 0
  BY <1>2, <1>3
<1>5. /\ \A T \in SUBSET Workers : w \in T => h[T] = d + g[T \ {w}]
      /\ \A T \in SUBSET Workers : w \notin T => h[T] = g[T]
  OBVIOUS
<1>. HIDE DEF h
<1>6. ASSUME NEW T \in SUBSET Q, NEW v \in T PROVE h[T] = new[v].duration + h[T \ {v}]
  <2>1. T \in SUBSET Workers /\ T \ {v} \in SUBSET Workers /\ T \ {w} \in SUBSET P
    BY <1>2
  <2>2. CASE w \notin T
    <3>1. T \in SUBSET P /\ v \in P
      BY <1>2, <2>2
    <3>2. h[T] = g[T] /\ h[T \ {v}] = g[T \ {v}]
      BY <1>5, <2>1, <2>2
    <3>. QED  BY <1>2, <1>3, <3>1, <3>2
  <2>3. CASE v = w
    <3>1. h[T] = d + g[T \ {w}] /\ h[T \ {w}] = g[T \ {w}]
      BY <1>5, <2>1, <2>3
    <3>. QED  BY <2>3, <3>1 DEF d
  <2>4. CASE w \in T /\ v # w
    <3>. DEFINE A == T \ {w}
                B == (T \ {w}) \ {v}
    <3>1. v \in A /\ A \in SUBSET P /\ v \in P /\ (T \ {v}) \ {w} = B /\ w \in T \ {v} /\ A \ {v} = B
      BY <1>2, <2>1, <2>4
    <3>2. h[T] = d + g[A] /\ h[T \ {v}] = d + g[B]
      BY <1>5, <2>1, <2>4, <3>1
    <3>3. g[A] = new[v].duration + g[B]
      BY <1>2, <1>3, <3>1
    <3>4. B \in SUBSET Workers /\ A \in SUBSET Workers
      BY <2>1
    <3>. HIDE DEF A, B
    <3>5. g[A] \in Nat /\ g[B] \in Nat
      BY <1>3, <3>4
    <3>6. new[v].duration \in Nat
      BY DEF Q
    <3>. QED  BY <1>2, <3>2, <3>3, <3>5, <3>6
  <2>. QED  BY <2>2, <2>3, <2>4
<1>7. AddsWorkers(h, new, Q)
  BY <1>4, <1>6 DEF AddsWorkers
<1>8. total + d = u[Len(log)] + h[Q]
  <2>1. h[Q] = d + g[P]
    BY <1>2, <1>5
  <2>2. Len(log) \in 0..Len(log)
    OBVIOUS
  <2>3. u[Len(log)] \in Nat
    BY <1>1, <2>2 DEF AddsLog
  <2>4. g[P] \in Nat
    BY <1>2, <1>3
  <2>. QED  BY <1>1, <1>2, <2>1, <2>3, <2>4
<1>. QED  BY <1>1, <1>7, <1>8 DEF SumIs, P, Q, d

LEMMA SumRecorded ==
  ASSUME NEW S, NEW log \in Seq(S), NEW total, NEW rec, NEW r, SumIs(total, log, rec, r),
         NEW w \in Workers, w \in SumAhead(rec, r), rec[w].duration \in Nat, NEW new,
         \A v \in Workers \ {w} : new[v] = rec[v], w \notin SumAhead(new, r),
         NEW e, e.route = r, e.observed = <<rec[w].duration>>
  PROVE  SumIs(total, Append(log, e), new, r)
<1>. DEFINE P == SumAhead(rec, r)
            Q == SumAhead(new, r)
            d == rec[w].duration
<1>1. PICK u, g : /\ AddsLog(u, log, r) /\ AddsWorkers(g, rec, P)
                  /\ total = u[Len(log)] + g[P]
  BY DEF SumIs
<1>2. /\ P \in SUBSET Workers /\ Q \in SUBSET P /\ Q = P \ {w}
      /\ \A v \in Q : new[v].duration = rec[v].duration
  <2>1. P \ {w} = Q \ {w}
    BY AheadSets
  <2>2. P \in SUBSET Workers
    BY DEF SumAhead
  <2>. QED  BY <2>1, <2>2
<1>3. /\ g \in [SUBSET Workers -> Nat] /\ g[{}] = 0
      /\ \A T \in SUBSET P : \A v \in T : g[T] = rec[v].duration + g[T \ {v}]
  BY <1>1 DEF AddsWorkers
<1>4. PICK v : AddsLog(v, Append(log, e), r) /\ v[Len(Append(log, e))] = u[Len(log)] + d
  <2>1. d \in Nat /\ e.route = r /\ e.observed = <<d>>
    OBVIOUS
  <2>. HIDE DEF d
  <2>2. Duration(e, r) = d
    BY <2>1 DEF Duration
  <2>3. AddsLog(u, log, r)
    BY <1>1
  <2>. QED  BY <2>1, <2>2, <2>3, LogAdds
<1>. HIDE DEF P, Q, d
<1>5. AddsWorkers(g, new, Q)
  BY <1>2, <1>3 DEF AddsWorkers
<1>6. g[P] = d + g[Q]
  BY <1>2, <1>3 DEF P, d
<1>7. u[Len(log)] \in Nat
  <2>1. Len(log) \in 0..Len(log)
    OBVIOUS
  <2>. QED  BY <1>1, <2>1 DEF AddsLog
<1>8. d \in Nat /\ g[Q] \in Nat
  BY <1>2, <1>3 DEF d
<1>9. total = v[Len(Append(log, e))] + g[Q]
  BY <1>1, <1>4, <1>6, <1>7, <1>8
<1>. QED  BY <1>4, <1>5, <1>9 DEF SumIs, Q

\* With nobody ahead, the sum is that of the history.
LEMMA SumOfLog ==
  ASSUME NEW total, NEW rec, NEW r, SumIs(total, recorded, rec, r), SumAhead(rec, r) = {},
         \E S : recorded \in Seq(S)
  PROVE  total = DurationOn(r)
<1>. DEFINE n == Len(recorded)
            F(f) == [i \in 0..n |-> IF i = 0 THEN 0
                      ELSE f[i - 1] + (IF i \in ObservedOn(r) THEN recorded[i].observed[1] ELSE 0)]
            c == CHOOSE f : f = F(f)
<1>1. PICK u, g : /\ AddsLog(u, recorded, r) /\ AddsWorkers(g, rec, {})
                  /\ total = u[n] + g[{}]
  BY DEF SumIs
<1>2. n \in Nat /\ DOMAIN recorded = 1..n
  OBVIOUS
<1>3. u \in [0..n -> Nat] /\ u[0] = 0 /\ \A i \in 1..n : u[i] = u[i - 1] + Duration(recorded[i], r)
  BY <1>1 DEF AddsLog
<1>4. \A i \in 1..n : Duration(recorded[i], r) =
                        IF i \in ObservedOn(r) THEN recorded[i].observed[1] ELSE 0
  BY <1>2 DEF Duration, ObservedOn
<1>5. DurationOn(r) = c[n]
  BY DEF DurationOn
<1>. HIDE DEF n
<1>6. u = F(u)
  <2>1. ASSUME NEW i \in 0..n PROVE u[i] = F(u)[i]
    BY <1>2, <1>3, <1>4
  <2>2. u = [i \in 0..n |-> u[i]]
    BY <1>3
  <2>3. F(u) = [i \in 0..n |-> F(u)[i]]
    OBVIOUS
  <2>. HIDE DEF F
  <2>4. [i \in 0..n |-> u[i]] = [i \in 0..n |-> F(u)[i]]
    BY <2>1
  <2>. QED  BY <2>2, <2>3, <2>4
<1>7. c = F(c)
  BY <1>6
<1>. HIDE DEF c
<1>8. c[0] = 0 /\ \A i \in 1..n : c[i] = c[i - 1] + Duration(recorded[i], r)
  BY <1>2, <1>4, <1>7
<1>. DEFINE T == {i \in 0..n : c[i] # u[i]}
<1>9. T = {}
  <2>. SUFFICES ASSUME T # {} PROVE FALSE
    OBVIOUS
  <2>1. PICK m \in T : \A i \in T : m <= i
    <3>1. T \in SUBSET Nat
      BY <1>2
    <3>. QED  BY <3>1, Least
  <2>2. m # 0
    BY <1>3, <1>8
  <2>3. m \in 1..n /\ m - 1 \in 0..n
    BY <1>2, <2>2
  <2>4. c[m - 1] = u[m - 1]
    BY <2>1, <2>3
  <2>. QED  BY <1>3, <1>8, <2>3, <2>4
<1>10. c[n] = u[n] /\ u[n] \in Nat
  <2>1. n \in 0..n
    BY <1>2
  <2>. QED  BY <1>3, <1>9, <2>1
<1>11. total = u[n] + 0
  BY <1>1 DEF AddsWorkers
<1>. QED  BY <1>5, <1>10, <1>11

-----------------------------------------------------------------------------

\* The types after a step of w that leaves the counters alone or counts up.
LEMMA ShapeStays ==
  ASSUME RecordTypes, NEW w \in Workers, NEW m, Shape(m),
         recording' = [recording EXCEPT ![w] = m]
  PROVE  /\ recording' = [v \in Workers |-> recording'[v]]
         /\ \A v \in Workers : Shape(recording'[v])
         /\ recording'[w] = m /\ \A v \in Workers \ {w} : recording'[v] = recording[v]
<1>1. recording = [v \in Workers |-> recording[v]] /\ \A v \in Workers : Shape(recording[v])
  BY DEF RecordTypes
<1>2. /\ recording' = [v \in Workers |-> recording'[v]]
      /\ recording'[w] = m /\ \A v \in Workers \ {w} : recording'[v] = recording[v]
  BY <1>1, OneMoves
<1>. QED  BY <1>1, <1>2

\* A worker that goes on with the same answer.
LEMMA GoesOn ==
  ASSUME NEW m, Shape(m), m # Idle, NEW at \in {"total"} \cup AfterTotal,
         at \in Observing => m.at \in Observing
  PROVE  /\ Shape([m EXCEPT !.at = at]) /\ [m EXCEPT !.at = at].at = at
         /\ [m EXCEPT !.at = at].route = m.route /\ [m EXCEPT !.at = at].status = m.status
         /\ "duration" \in DOMAIN m => [m EXCEPT !.at = at].duration = m.duration
<1>1. /\ m.route \in MetricRoutes
      /\ m = [x \in DOMAIN m |-> m[x]] /\ {"at", "route", "status"} \subseteq DOMAIN m
      /\ m.at \in Observing => "duration" \in DOMAIN m /\ m.duration \in Nat
  BY DEF Shape
<1>. DEFINE n == [m EXCEPT !.at = at]
<1>2. n = [x \in DOMAIN n |-> n[x]] /\ DOMAIN n = DOMAIN m /\ n["at"] = at
      /\ \A x \in DOMAIN m \ {"at"} : n[x] = m[x]
  BY <1>1
<1>. HIDE DEF n
<1>3. /\ n.at = at /\ n.route = m.route /\ n.status = m.status
      /\ "duration" \in DOMAIN m => n.duration = m.duration
  BY <1>1, <1>2
<1>4. Shape(n)
  BY <1>1, <1>2, <1>3 DEF Shape
<1>. QED  BY <1>3, <1>4 DEF n

\* The counters move with a worker that goes from recording m to recording n.
Balanced(m, n) ==
  /\ statusTotal' \in [StatusLabels -> Nat]
  /\ routeTotal' \in [MetricRoutes -> Nat] /\ count' \in [MetricRoutes -> Nat]
  /\ requestsTotal' = requestsTotal + Bit(n.at \in AfterTotal) - Bit(m.at \in AfterTotal)
  /\ \A s \in StatusLabels : statusTotal'[s] = statusTotal[s]
       + Bit(n.at \in AfterStatus /\ StatusCounter(n.status) = s)
       - Bit(m.at \in AfterStatus /\ StatusCounter(m.status) = s)
  /\ \A r \in MetricRoutes : routeTotal'[r] = routeTotal[r]
       + Bit(n.at \in AfterRoute /\ n.route = r) - Bit(m.at \in AfterRoute /\ m.route = r)
  /\ \A r \in MetricRoutes : count'[r] = count[r]
       + Bit(n.at \in Observing /\ n.route = r) - Bit(m.at \in Observing /\ m.route = r)

\* The invariant after a step of w that records no answer.
LEMMA AheadStep ==
  ASSUME MetricsInv, NEW w \in Workers, NEW n, Shape(n),
         recording' = [recording EXCEPT ![w] = n], recorded' = recorded, buckets' = buckets,
         Balanced(recording[w], n), sum' \in [MetricRoutes -> Nat], SumExact'
  PROVE  MetricsInv'
<1>. DEFINE m == recording[w]
<1>0. Balanced(m, n)
  OBVIOUS
<1>. HIDE DEF m
<1>1. RecordTypes /\ TotalExact /\ StatusExact /\ RouteExact /\ CountExact /\ BucketsExact
  BY DEF MetricsInv
<1>2. /\ recording' = [v \in Workers |-> recording'[v]] /\ \A v \in Workers : Shape(recording'[v])
      /\ recording'[w] = n /\ \A v \in Workers \ {w} : recording'[v] = recording[v]
  BY <1>1, ShapeStays
<1>3. Moved(w) /\ \E S : recorded \in Seq(S)
  BY <1>1, <1>2 DEF Moved, RecordTypes
<1>4. RecordTypes'
  BY <1>0, <1>1, <1>2 DEF RecordTypes, Balanced
<1>. DEFINE x == Len(recorded) + 1
<1>5. Len(recorded) \in Nat /\ x \notin DOMAIN recorded
  <2>1. Len(recorded) \in Nat /\ DOMAIN recorded = 1..Len(recorded)
    BY <1>3
  <2>. QED  BY <2>1
<1>. HIDE DEF x
<1>6. TotalExact'
  <2>1. /\ w \in TotalAhead(recording') <=> n.at \in AfterTotal
        /\ w \in TotalAhead(recording) <=> m.at \in AfterTotal
    BY <1>2 DEF TotalAhead, m
  <2>2. requestsTotal' = requestsTotal + 0
          + Bit(w \in TotalAhead(recording')) - Bit(w \in TotalAhead(recording))
    <3>1. requestsTotal \in Nat
      <4>1. Cardinality(TotalAhead(recording)) \in Nat
        BY MetricsAssumption, FS_Subset, FS_CardinalityType DEF TotalAhead
      <4>. QED  BY <1>1, <1>5, <4>1 DEF TotalExact
    <3>. QED  BY <1>0, <2>1, <3>1 DEF Bit, Balanced
  <2>3. Len(recorded') - Len(recorded) = 0
    BY <1>5
  <2>. QED  BY <1>1, <1>3, <2>2, <2>3, TotalStep
<1>7. StatusExact'
  <2>1. ASSUME NEW s \in StatusLabels
        PROVE  statusTotal'[s] = statusTotal[s] + Bit(x \in WithStatus(recorded', s))
           + Bit(w \in StatusAhead(recording', s)) - Bit(w \in StatusAhead(recording, s))
    <3>1. x \notin WithStatus(recorded', s)
      BY <1>5 DEF WithStatus
    <3>2. /\ w \in StatusAhead(recording', s) <=> (n.at \in AfterStatus /\ StatusCounter(n.status) = s)
          /\ w \in StatusAhead(recording, s) <=> (m.at \in AfterStatus /\ StatusCounter(m.status) = s)
      BY <1>2 DEF StatusAhead, m
    <3>3. statusTotal[s] \in Nat
      BY <1>1 DEF RecordTypes
    <3>. QED  BY <1>0, <3>1, <3>2, <3>3 DEF Bit, Balanced
  <2>. QED  BY <1>1, <1>3, <2>1, StatusStep DEF x
<1>8. RouteExact'
  <2>1. ASSUME NEW r \in MetricRoutes
        PROVE  routeTotal'[r] = routeTotal[r] + Bit(x \in OnRoute(recorded', r))
           + Bit(w \in RouteAhead(recording', r)) - Bit(w \in RouteAhead(recording, r))
    <3>1. x \notin OnRoute(recorded', r)
      BY <1>5 DEF OnRoute
    <3>2. /\ w \in RouteAhead(recording', r) <=> (n.at \in AfterRoute /\ n.route = r)
          /\ w \in RouteAhead(recording, r) <=> (m.at \in AfterRoute /\ m.route = r)
      BY <1>2 DEF RouteAhead, m
    <3>3. routeTotal[r] \in Nat
      BY <1>1 DEF RecordTypes
    <3>. QED  BY <1>0, <3>1, <3>2, <3>3 DEF Bit, Balanced
  <2>. QED  BY <1>1, <1>3, <2>1, RouteStep DEF x
<1>9. CountExact'
  <2>1. ASSUME NEW r \in MetricRoutes
        PROVE  count'[r] = count[r] + Bit(x \in Observed(recorded', r))
           + Bit(w \in CountAhead(recording', r)) - Bit(w \in CountAhead(recording, r))
    <3>1. x \notin Observed(recorded', r)
      BY <1>5 DEF Observed
    <3>2. /\ w \in CountAhead(recording', r) <=> (n.at \in Observing /\ n.route = r)
          /\ w \in CountAhead(recording, r) <=> (m.at \in Observing /\ m.route = r)
      BY <1>2 DEF CountAhead, m
    <3>3. count[r] \in Nat
      BY <1>1 DEF RecordTypes
    <3>. QED  BY <1>0, <3>1, <3>2, <3>3 DEF Bit, Balanced
  <2>. QED  BY <1>1, <1>3, <2>1, CountStep DEF x
<1>10. BucketsExact'
  BY <1>1 DEF BucketsExact
<1>. QED  BY <1>4, <1>6, <1>7, <1>8, <1>9, <1>10 DEF MetricsInv

\* The sum is kept while w is not ahead with it.
LEMMA SumStays ==
  ASSUME SumExact, RecordTypes, NEW w \in Workers, NEW n, Shape(n),
         recording' = [recording EXCEPT ![w] = n], recording[w].at # "buckets", n.at # "buckets",
         recorded' = recorded, sum' = sum
  PROVE  SumExact'
<1>1. SUFFICES ASSUME NEW r \in MetricRoutes PROVE SumIs(sum[r], recorded, recording', r)
  BY DEF SumExact
<1>2. recording'[w] = n /\ \A v \in Workers \ {w} : recording'[v] = recording[v]
  BY ShapeStays
<1>3. /\ SumAhead(recording', r) = SumAhead(recording, r)
      /\ \A v \in SumAhead(recording, r) : recording'[v].duration = recording[v].duration
  BY <1>2 DEF SumAhead
<1>4. SumIs(sum[r], recorded, recording, r)
  BY DEF SumExact
<1>. QED  BY <1>3, <1>4, SumKept

LEMMA TotalIsNat == ASSUME MetricsInv PROVE requestsTotal \in Nat
<1>1. Cardinality(TotalAhead(recording)) \in Nat
  BY MetricsAssumption, FS_Subset, FS_CardinalityType DEF TotalAhead
<1>2. Len(recorded) \in Nat
  <2>1. PICK S : recorded \in Seq(S)
    BY DEF MetricsInv, RecordTypes
  <2>. QED  BY <2>1
<1>. QED  BY <1>1, <1>2 DEF MetricsInv, TotalExact

LEMMA CountTotalExact == ASSUME MetricsInv, NEW w \in Workers, CountTotal(w) PROVE MetricsInv'
<1>. DEFINE m == recording[w]
            n == [m EXCEPT !.at = "route"]
<1>1. /\ m.at = "total" /\ requestsTotal' = requestsTotal + 1
      /\ recording' = [recording EXCEPT ![w] = n]
      /\ routeTotal' = routeTotal /\ statusTotal' = statusTotal /\ count' = count
      /\ sum' = sum /\ buckets' = buckets /\ recorded' = recorded
  BY DEF CountTotal, Goes, Moves
<1>2. RecordTypes /\ SumExact
  BY DEF MetricsInv
<1>3. /\ statusTotal \in [StatusLabels -> Nat]
      /\ routeTotal \in [MetricRoutes -> Nat] /\ count \in [MetricRoutes -> Nat]
      /\ sum \in [MetricRoutes -> Nat]
  BY <1>2 DEF RecordTypes
<1>4. Shape(n) /\ n.at = "route" /\ n.route = m.route /\ n.status = m.status
  <2>1. Shape(m) /\ m # Idle
    BY <1>1, <1>2 DEF RecordTypes, Idle
  <2>. QED  BY <2>1, GoesOn DEF AfterTotal, Observing
<1>. HIDE DEF n
<1>5. SumExact'
  BY <1>1, <1>2, <1>4, SumStays
<1>. HIDE DEF m
<1>6. requestsTotal' = requestsTotal + Bit(n.at \in AfterTotal) - Bit(m.at \in AfterTotal)
  <2>1. requestsTotal + 1 = requestsTotal + 1 - 0
    <3>1. requestsTotal \in Nat
      BY TotalIsNat
    <3>. QED  BY <3>1
  <2>2. Bit(n.at \in AfterTotal) = 1 /\ Bit(m.at \in AfterTotal) = 0
    BY <1>1, <1>4 DEF Bit, AfterTotal
  <2>. QED  BY <1>1, <2>1, <2>2
<1>7. /\ Bit(FALSE) = 0
      /\ n.at \notin AfterRoute /\ n.at \notin AfterStatus /\ n.at \notin Observing
      /\ m.at \notin AfterRoute /\ m.at \notin AfterStatus /\ m.at \notin Observing
  BY <1>1, <1>4 DEF Bit, AfterRoute, AfterStatus, Observing
<1>8. \A s \in StatusLabels : statusTotal'[s] = statusTotal[s]
           + Bit(n.at \in AfterStatus /\ StatusCounter(n.status) = s)
           - Bit(m.at \in AfterStatus /\ StatusCounter(m.status) = s)
  BY <1>1, <1>3, <1>7 DEF Bit
<1>9. \A r \in MetricRoutes : routeTotal'[r] = routeTotal[r]
           + Bit(n.at \in AfterRoute /\ n.route = r) - Bit(m.at \in AfterRoute /\ m.route = r)
  BY <1>1, <1>3, <1>7 DEF Bit
<1>10. \A r \in MetricRoutes : count'[r] = count[r]
           + Bit(n.at \in Observing /\ n.route = r) - Bit(m.at \in Observing /\ m.route = r)
  BY <1>1, <1>3, <1>7 DEF Bit
<1>11. Balanced(m, n)
  BY <1>1, <1>3, <1>6, <1>8, <1>9, <1>10 DEF Balanced
<1>. QED  BY <1>1, <1>3, <1>4, <1>5, <1>11, AheadStep DEF m

LEMMA CountRouteExact == ASSUME MetricsInv, NEW w \in Workers, CountRoute(w) PROVE MetricsInv'
<1>. DEFINE m == recording[w]
            n == [m EXCEPT !.at = "status"]
<1>1. /\ m.at = "route" /\ routeTotal' = [routeTotal EXCEPT ![m.route] = @ + 1]
      /\ recording' = [recording EXCEPT ![w] = n]
      /\ requestsTotal' = requestsTotal /\ statusTotal' = statusTotal /\ count' = count
      /\ sum' = sum /\ buckets' = buckets /\ recorded' = recorded
  BY DEF CountRoute, Goes, Moves
<1>2. RecordTypes /\ SumExact /\ requestsTotal \in Nat
  BY TotalIsNat DEF MetricsInv
<1>3. /\ statusTotal \in [StatusLabels -> Nat]
      /\ routeTotal \in [MetricRoutes -> Nat] /\ count \in [MetricRoutes -> Nat]
      /\ sum \in [MetricRoutes -> Nat]
  BY <1>2 DEF RecordTypes
<1>4. Shape(n) /\ n.at = "status" /\ n.route = m.route /\ n.status = m.status /\ m.route \in MetricRoutes
  <2>1. Shape(m) /\ m # Idle
    BY <1>1, <1>2 DEF RecordTypes, Idle
  <2>2. m.route \in MetricRoutes
    BY <2>1 DEF Shape
  <2>. QED  BY <2>1, <2>2, GoesOn DEF AfterTotal, Observing
<1>. HIDE DEF n
<1>5. SumExact'
  BY <1>1, <1>2, <1>4, SumStays
<1>. HIDE DEF m
<1>6. requestsTotal' = requestsTotal + Bit(n.at \in AfterTotal) - Bit(m.at \in AfterTotal)
  BY <1>1, <1>2, <1>4 DEF Bit, AfterTotal
<1>7. \A s \in StatusLabels : statusTotal'[s] = statusTotal[s]
           + Bit(n.at \in AfterStatus /\ StatusCounter(n.status) = s)
           - Bit(m.at \in AfterStatus /\ StatusCounter(m.status) = s)
  BY <1>1, <1>3, <1>4 DEF Bit, AfterStatus
<1>8. \A r \in MetricRoutes : routeTotal'[r] = routeTotal[r]
           + Bit(n.at \in AfterRoute /\ n.route = r) - Bit(m.at \in AfterRoute /\ m.route = r)
  BY <1>1, <1>3, <1>4 DEF Bit, AfterRoute
<1>9. \A r \in MetricRoutes : count'[r] = count[r]
           + Bit(n.at \in Observing /\ n.route = r) - Bit(m.at \in Observing /\ m.route = r)
  BY <1>1, <1>3, <1>4 DEF Bit, Observing
<1>10. routeTotal' \in [MetricRoutes -> Nat]
  BY <1>1, <1>3, <1>4
<1>11. Balanced(m, n)
  BY <1>1, <1>3, <1>6, <1>7, <1>8, <1>9, <1>10 DEF Balanced
<1>. QED  BY <1>1, <1>3, <1>4, <1>5, <1>11, AheadStep DEF m

LEMMA CountStatusExact == ASSUME MetricsInv, NEW w \in Workers, CountStatus(w) PROVE MetricsInv'
<1>. DEFINE m == recording[w]
            n == [m EXCEPT !.at = "write"]
<1>1. /\ m.at = "status"
      /\ statusTotal' = [statusTotal EXCEPT ![StatusCounter(m.status)] = @ + 1]
      /\ recording' = [recording EXCEPT ![w] = n]
      /\ requestsTotal' = requestsTotal /\ routeTotal' = routeTotal /\ count' = count
      /\ sum' = sum /\ buckets' = buckets /\ recorded' = recorded
  BY DEF CountStatus, Goes, Moves
<1>2. RecordTypes /\ SumExact /\ requestsTotal \in Nat
  BY TotalIsNat DEF MetricsInv
<1>3. /\ statusTotal \in [StatusLabels -> Nat]
      /\ routeTotal \in [MetricRoutes -> Nat] /\ count \in [MetricRoutes -> Nat]
      /\ sum \in [MetricRoutes -> Nat]
  BY <1>2 DEF RecordTypes
<1>4. Shape(n) /\ n.at = "write" /\ n.route = m.route /\ n.status = m.status /\ m.route \in MetricRoutes
  <2>1. Shape(m) /\ m # Idle
    BY <1>1, <1>2 DEF RecordTypes, Idle
  <2>2. m.route \in MetricRoutes
    BY <2>1 DEF Shape
  <2>. QED  BY <2>1, <2>2, GoesOn DEF AfterTotal, Observing
<1>. HIDE DEF n
<1>5. SumExact'
  BY <1>1, <1>2, <1>4, SumStays
<1>. HIDE DEF m
<1>6. requestsTotal' = requestsTotal + Bit(n.at \in AfterTotal) - Bit(m.at \in AfterTotal)
  BY <1>1, <1>2, <1>4 DEF Bit, AfterTotal
<1>7. \A s \in StatusLabels : statusTotal'[s] = statusTotal[s]
           + Bit(n.at \in AfterStatus /\ StatusCounter(n.status) = s)
           - Bit(m.at \in AfterStatus /\ StatusCounter(m.status) = s)
  BY <1>1, <1>3, <1>4 DEF Bit, AfterStatus
<1>8. \A r \in MetricRoutes : routeTotal'[r] = routeTotal[r]
           + Bit(n.at \in AfterRoute /\ n.route = r) - Bit(m.at \in AfterRoute /\ m.route = r)
  BY <1>1, <1>3, <1>4 DEF Bit, AfterRoute
<1>9. \A r \in MetricRoutes : count'[r] = count[r]
           + Bit(n.at \in Observing /\ n.route = r) - Bit(m.at \in Observing /\ m.route = r)
  BY <1>1, <1>3, <1>4 DEF Bit, Observing
<1>10. statusTotal' \in [StatusLabels -> Nat]
  <2>1. StatusCounter(m.status) \in StatusLabels
    BY DEF StatusCounter, StatusLabels
  <2>. QED  BY <1>1, <1>3, <2>1
<1>11. Balanced(m, n)
  BY <1>1, <1>3, <1>6, <1>7, <1>8, <1>9, <1>10 DEF Balanced
<1>. QED  BY <1>1, <1>3, <1>4, <1>5, <1>11, AheadStep DEF m

LEMMA ObserveCountExact == ASSUME MetricsInv, NEW w \in Workers, ObserveCount(w) PROVE MetricsInv'
<1>. DEFINE m == recording[w]
<1>0. PICK d \in Durations :
        Moves(w, [at |-> "load", route |-> m.route, status |-> m.status, duration |-> d])
  BY DEF ObserveCount
<1>. DEFINE n == [at |-> "load", route |-> m.route, status |-> m.status, duration |-> d]
<1>1. /\ m.at = "write" /\ count' = [count EXCEPT ![m.route] = @ + 1]
      /\ recording' = [recording EXCEPT ![w] = n]
      /\ requestsTotal' = requestsTotal /\ statusTotal' = statusTotal /\ routeTotal' = routeTotal
      /\ sum' = sum /\ buckets' = buckets /\ recorded' = recorded
  BY <1>0 DEF ObserveCount, Moves
<1>2. RecordTypes /\ SumExact /\ requestsTotal \in Nat
  BY TotalIsNat DEF MetricsInv
<1>3. /\ statusTotal \in [StatusLabels -> Nat]
      /\ routeTotal \in [MetricRoutes -> Nat] /\ count \in [MetricRoutes -> Nat]
      /\ sum \in [MetricRoutes -> Nat]
  BY <1>2 DEF RecordTypes
<1>4. Shape(n) /\ n.at = "load" /\ n.route = m.route /\ n.status = m.status /\ m.route \in MetricRoutes
  <2>1. Shape(m) /\ m # Idle
    BY <1>1, <1>2 DEF RecordTypes, Idle
  <2>2. m.route \in MetricRoutes /\ d \in Nat
    BY <2>1, MetricsAssumption DEF Shape
  <2>. QED  BY <2>2 DEF Shape, AfterTotal, Observing
<1>. HIDE DEF n
<1>5. SumExact'
  BY <1>1, <1>2, <1>4, SumStays
<1>. HIDE DEF m
<1>6. requestsTotal' = requestsTotal + Bit(n.at \in AfterTotal) - Bit(m.at \in AfterTotal)
  BY <1>1, <1>2, <1>4 DEF Bit, AfterTotal
<1>7. \A s \in StatusLabels : statusTotal'[s] = statusTotal[s]
           + Bit(n.at \in AfterStatus /\ StatusCounter(n.status) = s)
           - Bit(m.at \in AfterStatus /\ StatusCounter(m.status) = s)
  BY <1>1, <1>3, <1>4 DEF Bit, AfterStatus
<1>8. \A r \in MetricRoutes : routeTotal'[r] = routeTotal[r]
           + Bit(n.at \in AfterRoute /\ n.route = r) - Bit(m.at \in AfterRoute /\ m.route = r)
  BY <1>1, <1>3, <1>4 DEF Bit, AfterRoute
<1>9. \A r \in MetricRoutes : count'[r] = count[r]
           + Bit(n.at \in Observing /\ n.route = r) - Bit(m.at \in Observing /\ m.route = r)
  BY <1>1, <1>3, <1>4 DEF Bit, Observing
<1>10. count' \in [MetricRoutes -> Nat]
  BY <1>1, <1>3, <1>4
<1>11. Balanced(m, n)
  BY <1>1, <1>3, <1>6, <1>7, <1>8, <1>9, <1>10 DEF Balanced
<1>. QED  BY <1>1, <1>3, <1>4, <1>5, <1>11, AheadStep DEF m

LEMMA LoadSumExact == ASSUME MetricsInv, NEW w \in Workers, LoadSum(w) PROVE MetricsInv'
<1>. DEFINE m == recording[w]
            n == [at |-> "swap", route |-> m.route, status |-> m.status,
                  duration |-> m.duration, old |-> sum[m.route]]
<1>1. /\ m.at = "load" /\ recording' = [recording EXCEPT ![w] = n]
      /\ requestsTotal' = requestsTotal /\ statusTotal' = statusTotal /\ routeTotal' = routeTotal
      /\ count' = count /\ sum' = sum /\ buckets' = buckets /\ recorded' = recorded
  BY DEF LoadSum, Moves
<1>2. RecordTypes /\ SumExact /\ requestsTotal \in Nat
  BY TotalIsNat DEF MetricsInv
<1>3. /\ statusTotal \in [StatusLabels -> Nat]
      /\ routeTotal \in [MetricRoutes -> Nat] /\ count \in [MetricRoutes -> Nat]
      /\ sum \in [MetricRoutes -> Nat]
  BY <1>2 DEF RecordTypes
<1>4. Shape(n) /\ n.at = "swap" /\ n.route = m.route /\ n.status = m.status /\ m.route \in MetricRoutes
  <2>1. Shape(m) /\ m # Idle
    BY <1>1, <1>2 DEF RecordTypes, Idle
  <2>2. m.route \in MetricRoutes /\ m.duration \in Nat
    BY <1>1, <2>1 DEF Shape, Observing
  <2>. QED  BY <2>2 DEF Shape, AfterTotal, Observing
<1>. HIDE DEF n
<1>5. SumExact'
  BY <1>1, <1>2, <1>4, SumStays
<1>. HIDE DEF m
<1>6. requestsTotal' = requestsTotal + Bit(n.at \in AfterTotal) - Bit(m.at \in AfterTotal)
  BY <1>1, <1>2, <1>4 DEF Bit, AfterTotal
<1>7. \A s \in StatusLabels : statusTotal'[s] = statusTotal[s]
           + Bit(n.at \in AfterStatus /\ StatusCounter(n.status) = s)
           - Bit(m.at \in AfterStatus /\ StatusCounter(m.status) = s)
  BY <1>1, <1>3, <1>4 DEF Bit, AfterStatus
<1>8. \A r \in MetricRoutes : routeTotal'[r] = routeTotal[r]
           + Bit(n.at \in AfterRoute /\ n.route = r) - Bit(m.at \in AfterRoute /\ m.route = r)
  BY <1>1, <1>3, <1>4 DEF Bit, AfterRoute
<1>9. \A r \in MetricRoutes : count'[r] = count[r]
           + Bit(n.at \in Observing /\ n.route = r) - Bit(m.at \in Observing /\ m.route = r)
  BY <1>1, <1>3, <1>4 DEF Bit, Observing
<1>10. Balanced(m, n)
  BY <1>1, <1>3, <1>6, <1>7, <1>8, <1>9 DEF Balanced
<1>. QED  BY <1>1, <1>3, <1>4, <1>5, <1>10, AheadStep DEF m

\* The compare-exchange: it adds the duration to the sum it loaded only while
\* that is still the sum.
LEMMA SwapSumExact == ASSUME MetricsInv, NEW w \in Workers, SwapSum(w) PROVE MetricsInv'
<1>. DEFINE m == recording[w]
<1>2. RecordTypes /\ SumExact /\ requestsTotal \in Nat
  BY TotalIsNat DEF MetricsInv
<1>3. /\ statusTotal \in [StatusLabels -> Nat]
      /\ routeTotal \in [MetricRoutes -> Nat] /\ count \in [MetricRoutes -> Nat]
      /\ sum \in [MetricRoutes -> Nat]
  BY <1>2 DEF RecordTypes
<1>0. m.at = "swap" /\ Shape(m) /\ m # Idle /\ m.route \in MetricRoutes /\ m.duration \in Nat
      /\ "duration" \in DOMAIN m
  <2>1. m.at = "swap" /\ Shape(m) /\ m # Idle
    BY <1>2 DEF SwapSum, RecordTypes, Idle
  <2>. QED  BY <2>1 DEF Shape, Observing
<1>10. CASE sum[m.route] # m.old
  <2>. DEFINE n == [m EXCEPT !.at = "load"]
  <2>1. /\ recording' = [recording EXCEPT ![w] = n]
        /\ requestsTotal' = requestsTotal /\ statusTotal' = statusTotal /\ routeTotal' = routeTotal
        /\ count' = count /\ sum' = sum /\ buckets' = buckets /\ recorded' = recorded
    BY <1>10 DEF SwapSum, Goes, Moves
  <2>4. Shape(n) /\ n.at = "load" /\ n.route = m.route /\ n.status = m.status
    BY <1>0, GoesOn DEF AfterTotal, Observing
  <2>. HIDE DEF n
  <2>5. SumExact'
    BY <1>0, <1>2, <2>1, <2>4, SumStays
  <2>. HIDE DEF m
<2>6. requestsTotal' = requestsTotal + Bit(n.at \in AfterTotal) - Bit(m.at \in AfterTotal)
    BY <1>0, <2>1, <1>2, <2>4 DEF Bit, AfterTotal
  <2>7. \A s \in StatusLabels : statusTotal'[s] = statusTotal[s]
             + Bit(n.at \in AfterStatus /\ StatusCounter(n.status) = s)
             - Bit(m.at \in AfterStatus /\ StatusCounter(m.status) = s)
    BY <1>0, <2>1, <1>3, <2>4 DEF Bit, AfterStatus
  <2>8. \A r \in MetricRoutes : routeTotal'[r] = routeTotal[r]
             + Bit(n.at \in AfterRoute /\ n.route = r) - Bit(m.at \in AfterRoute /\ m.route = r)
    BY <1>0, <2>1, <1>3, <2>4 DEF Bit, AfterRoute
  <2>9. \A r \in MetricRoutes : count'[r] = count[r]
             + Bit(n.at \in Observing /\ n.route = r) - Bit(m.at \in Observing /\ m.route = r)
    BY <1>0, <2>1, <1>3, <2>4 DEF Bit, Observing
  <2>11. Balanced(m, n)
    BY <1>3, <2>1, <2>6, <2>7, <2>8, <2>9 DEF Balanced
  <2>. QED  BY <1>3, <2>1, <2>4, <2>5, <2>11, AheadStep DEF m
<1>11. CASE sum[m.route] = m.old
  <2>. DEFINE n == [m EXCEPT !.at = "buckets"]
  <2>1. /\ recording' = [recording EXCEPT ![w] = n]
        /\ requestsTotal' = requestsTotal /\ statusTotal' = statusTotal /\ routeTotal' = routeTotal
        /\ count' = count /\ buckets' = buckets /\ recorded' = recorded
        /\ sum' = [sum EXCEPT ![m.route] = sum[m.route] + m.duration]
    BY <1>11 DEF SwapSum, Goes, Moves
  <2>4. /\ Shape(n) /\ n.at = "buckets" /\ n.route = m.route /\ n.status = m.status
        /\ n.duration = m.duration
    BY <1>0, GoesOn DEF AfterTotal, Observing
  <2>. HIDE DEF n
  <2>10. sum' \in [MetricRoutes -> Nat]
    BY <1>0, <1>3, <2>1
  <2>5. SumExact'
    <3>1. SUFFICES ASSUME NEW r \in MetricRoutes PROVE SumIs(sum'[r], recorded, recording', r)
      BY <2>1 DEF SumExact
    <3>2. /\ recording'[w] = n /\ \A v \in Workers \ {w} : recording'[v] = recording[v]
          /\ \A v \in Workers : Shape(recording'[v])
      BY <1>2, <2>1, <2>4, ShapeStays
    <3>3. SumIs(sum[r], recorded, recording, r)
      BY <1>2 DEF SumExact
    <3>4. CASE r = m.route
      <4>1. PICK S : recorded \in Seq(S)
        BY <1>2 DEF RecordTypes
      <4>2. w \notin SumAhead(recording, r) /\ w \in SumAhead(recording', r)
        BY <1>0, <2>4, <3>2, <3>4 DEF SumAhead
      <4>3. \A v \in SumAhead(recording', r) : recording'[v].duration \in Nat
        <5>1. ASSUME NEW v \in SumAhead(recording', r) PROVE recording'[v].duration \in Nat
          <6>1. v \in Workers /\ recording'[v].at = "buckets"
            BY DEF SumAhead
          <6>2. Shape(recording'[v])
            BY <3>2, <6>1
          <6>. QED  BY <6>1, <6>2 DEF Shape, Idle, Observing
        <5>. QED  BY <5>1
      <4>4. SumIs(sum[r] + recording'[w].duration, recorded, recording', r)
        BY <3>2, <3>3, <4>1, <4>2, <4>3, SumAdded
      <4>5. sum'[r] = sum[r] + recording'[w].duration
        BY <1>3, <2>1, <2>4, <3>2, <3>4
      <4>. QED  BY <4>4, <4>5
    <3>5. CASE r # m.route
      <4>1. sum'[r] = sum[r]
        BY <1>3, <2>1, <3>5
      <4>2. /\ SumAhead(recording', r) = SumAhead(recording, r)
            /\ \A v \in SumAhead(recording, r) : recording'[v].duration = recording[v].duration
        BY <1>0, <2>4, <3>2, <3>5 DEF SumAhead
      <4>. QED  BY <3>3, <4>1, <4>2, SumKept
    <3>. QED  BY <3>4, <3>5
  <2>. HIDE DEF m
<2>6. requestsTotal' = requestsTotal + Bit(n.at \in AfterTotal) - Bit(m.at \in AfterTotal)
    BY <1>0, <2>1, <1>2, <2>4 DEF Bit, AfterTotal
  <2>7. \A s \in StatusLabels : statusTotal'[s] = statusTotal[s]
             + Bit(n.at \in AfterStatus /\ StatusCounter(n.status) = s)
             - Bit(m.at \in AfterStatus /\ StatusCounter(m.status) = s)
    BY <1>0, <2>1, <1>3, <2>4 DEF Bit, AfterStatus
  <2>8. \A r \in MetricRoutes : routeTotal'[r] = routeTotal[r]
             + Bit(n.at \in AfterRoute /\ n.route = r) - Bit(m.at \in AfterRoute /\ m.route = r)
    BY <1>0, <2>1, <1>3, <2>4 DEF Bit, AfterRoute
  <2>9. \A r \in MetricRoutes : count'[r] = count[r]
             + Bit(n.at \in Observing /\ n.route = r) - Bit(m.at \in Observing /\ m.route = r)
    BY <1>0, <2>1, <1>3, <2>4 DEF Bit, Observing
  <2>11. Balanced(m, n)
    BY <1>3, <2>1, <2>6, <2>7, <2>8, <2>9 DEF Balanced
  <2>. QED  BY <2>1, <2>4, <2>5, <2>10, <2>11, AheadStep DEF m
<1>. QED  BY <1>10, <1>11

\* A request served: its worker has an answer to record.
LEMMA ServeExact == ASSUME MetricsInv, config \in Configs, NEW w \in Workers, Serve(w) PROVE MetricsInv'
<1>. DEFINE m == recording[w]
<1>0. PICK route, status, refused : route \in MetricRoutes /\ StartRecording(w, route, status, refused)
  <2>1. PICK input \in Inputs(config), now \in Clock, allowed \in BOOLEAN :
          LET early == Early(input.request, allowed)
              answer == Given(input, now, allowed)
          IN StartRecording(w, IF early.status # Accepted THEN early.route
                               ELSE ClassifyRoute(input.request.path),
                            answer.status, early.status # Accepted)
    BY DEF Serve, Given
  <2>2. /\ ClassifyRoute(input.request.path) \in MetricRoutes
        /\ {"unknown", "/metrics", "/health"} \subseteq MetricRoutes
    BY InputAssumption DEF ClassifyRoute, Known, Probes
  <2>3. Early(input.request, allowed).route
          \in {ClassifyRoute(input.request.path), "unknown", "/metrics", "/health"}
    BY DEF Early
  <2>. QED  BY <2>1, <2>2, <2>3
<1>. DEFINE n == [at |-> "total", route |-> route, status |-> status, refused |-> refused]
<1>1. /\ recording' = [recording EXCEPT ![w] = n]
      /\ requestsTotal' = requestsTotal /\ statusTotal' = statusTotal /\ routeTotal' = routeTotal
      /\ count' = count /\ sum' = sum /\ buckets' = buckets /\ recorded' = recorded
  BY <1>0 DEF Serve, StartRecording
<1>2. RecordTypes /\ SumExact /\ requestsTotal \in Nat
  BY TotalIsNat DEF MetricsInv
<1>3. /\ statusTotal \in [StatusLabels -> Nat]
      /\ routeTotal \in [MetricRoutes -> Nat] /\ count \in [MetricRoutes -> Nat]
      /\ sum \in [MetricRoutes -> Nat]
  BY <1>2 DEF RecordTypes
<1>4. Shape(n) /\ n.at = "total" /\ m.at = "idle"
  <2>1. m = Idle /\ route \in MetricRoutes
    BY <1>0 DEF StartRecording
  <2>. QED  BY <2>1 DEF Shape, Idle, Observing, AfterTotal
<1>. HIDE DEF n
<1>5. SumExact'
  BY <1>1, <1>2, <1>4, SumStays
<1>. HIDE DEF m
<1>6. requestsTotal' = requestsTotal + Bit(n.at \in AfterTotal) - Bit(m.at \in AfterTotal)
  BY <1>1, <1>2, <1>4 DEF Bit, AfterTotal
<1>7. \A s \in StatusLabels : statusTotal'[s] = statusTotal[s]
           + Bit(n.at \in AfterStatus /\ StatusCounter(n.status) = s)
           - Bit(m.at \in AfterStatus /\ StatusCounter(m.status) = s)
  BY <1>1, <1>3, <1>4 DEF Bit, AfterStatus
<1>8. \A r \in MetricRoutes : routeTotal'[r] = routeTotal[r]
           + Bit(n.at \in AfterRoute /\ n.route = r) - Bit(m.at \in AfterRoute /\ m.route = r)
  BY <1>1, <1>3, <1>4 DEF Bit, AfterRoute
<1>9. \A r \in MetricRoutes : count'[r] = count[r]
           + Bit(n.at \in Observing /\ n.route = r) - Bit(m.at \in Observing /\ m.route = r)
  BY <1>1, <1>3, <1>4 DEF Bit, Observing
<1>10. Balanced(m, n)
  BY <1>1, <1>3, <1>6, <1>7, <1>8, <1>9 DEF Balanced
<1>. QED  BY <1>1, <1>3, <1>4, <1>5, <1>10, AheadStep DEF m

\* The invariant after a step of w that records its answer: w was ahead with
\* every counter the answer belongs to.
LEMMA RecordedStep ==
  ASSUME MetricsInv, NEW w \in Workers, NEW e,
         recording[w].at \in AfterStatus, recording' = [recording EXCEPT ![w] = Idle],
         recorded' = Append(recorded, e),
         e.route = recording[w].route, e.status = recording[w].status,
         e.observed # <<>> <=> recording[w].at \in Observing,
         requestsTotal' = requestsTotal, statusTotal' = statusTotal, routeTotal' = routeTotal,
         count' = count, sum' = sum, buckets' \in [MetricRoutes -> [DOMAIN BucketBounds -> Nat]],
         \A r \in MetricRoutes : \A i \in DOMAIN BucketBounds : buckets'[r][i] = buckets[r][i]
           + Bit(e.route = r /\ e.observed # <<>> /\ e.observed[1] <= BucketBounds[i]),
         SumExact'
  PROVE  MetricsInv'
<1>. DEFINE m == recording[w]
<1>1. RecordTypes /\ TotalExact /\ StatusExact /\ RouteExact /\ CountExact /\ BucketsExact
  BY DEF MetricsInv
<1>2. /\ recording' = [v \in Workers |-> recording'[v]] /\ \A v \in Workers : Shape(recording'[v])
      /\ recording'[w] = Idle /\ \A v \in Workers \ {w} : recording'[v] = recording[v]
  <2>1. Shape(Idle)
    BY DEF Shape
  <2>. QED  BY <1>1, <2>1, ShapeStays
<1>3. Moved(w)
  BY <1>2 DEF Moved
<1>4. PICK S : recorded \in Seq(S)
  BY <1>1 DEF RecordTypes
<1>. DEFINE x == Len(recorded) + 1
<1>5. /\ Len(recorded) \in Nat /\ Len(recorded') = Len(recorded) + 1
      /\ x \in DOMAIN recorded' /\ recorded'[x] = e /\ recorded' \in Seq(S \cup {e})
  <2>1. /\ Len(recorded) \in Nat /\ Len(recorded') = Len(recorded) + 1
        /\ DOMAIN recorded' = 1..(Len(recorded) + 1)
        /\ recorded'[Len(recorded) + 1] = e /\ recorded' \in Seq(S \cup {e})
    BY <1>4, LogGrows
  <2>. QED  BY <2>1
<1>6. RecordTypes'
  BY <1>1, <1>2, <1>5 DEF RecordTypes
<1>7. m.at \in AfterTotal /\ m.at \in AfterRoute /\ m.at \in AfterStatus
  BY DEF AfterTotal, AfterRoute, AfterStatus
<1>8. Idle.at \notin AfterTotal /\ Idle.at \notin AfterRoute /\ Idle.at \notin AfterStatus
      /\ Idle.at \notin Observing
  BY DEF Idle, AfterTotal, AfterRoute, AfterStatus, Observing
<1>. HIDE DEF m, x
<1>9. TotalExact'
  <2>1. w \in TotalAhead(recording) /\ w \notin TotalAhead(recording')
    BY <1>2, <1>7, <1>8 DEF TotalAhead, m
  <2>2. requestsTotal \in Nat /\ Len(recorded') - Len(recorded) = 1
    BY <1>5, TotalIsNat
  <2>3. Bit(w \in TotalAhead(recording)) = 1 /\ Bit(w \in TotalAhead(recording')) = 0
    BY <2>1 DEF Bit
  <2>4. requestsTotal' = requestsTotal + 1 + 0 - 1
    BY <2>2
  <2>. QED  BY <1>1, <1>3, <1>4, <2>2, <2>3, <2>4, TotalStep
<1>10. StatusExact'
  <2>1. ASSUME NEW s \in StatusLabels
        PROVE  statusTotal'[s] = statusTotal[s] + Bit(x \in WithStatus(recorded', s))
           + Bit(w \in StatusAhead(recording', s)) - Bit(w \in StatusAhead(recording, s))
    <3>1. x \in WithStatus(recorded', s) <=> StatusCounter(m.status) = s
      BY <1>5 DEF WithStatus, m
    <3>2. /\ w \notin StatusAhead(recording', s)
          /\ w \in StatusAhead(recording, s) <=> StatusCounter(m.status) = s
      BY <1>2, <1>7, <1>8 DEF StatusAhead, m
    <3>3. statusTotal[s] \in Nat
      BY <1>1 DEF RecordTypes
    <3>. QED  BY <3>1, <3>2, <3>3 DEF Bit
  <2>. QED  BY <1>1, <1>3, <1>4, <2>1, StatusStep DEF x
<1>11. RouteExact'
  <2>1. ASSUME NEW r \in MetricRoutes
        PROVE  routeTotal'[r] = routeTotal[r] + Bit(x \in OnRoute(recorded', r))
           + Bit(w \in RouteAhead(recording', r)) - Bit(w \in RouteAhead(recording, r))
    <3>1. x \in OnRoute(recorded', r) <=> m.route = r
      BY <1>5 DEF OnRoute, m
    <3>2. /\ w \notin RouteAhead(recording', r)
          /\ w \in RouteAhead(recording, r) <=> m.route = r
      BY <1>2, <1>7, <1>8 DEF RouteAhead, m
    <3>3. routeTotal[r] \in Nat
      BY <1>1 DEF RecordTypes
    <3>. QED  BY <3>1, <3>2, <3>3 DEF Bit
  <2>. QED  BY <1>1, <1>3, <1>4, <2>1, RouteStep DEF x
<1>12. CountExact'
  <2>1. ASSUME NEW r \in MetricRoutes
        PROVE  count'[r] = count[r] + Bit(x \in Observed(recorded', r))
           + Bit(w \in CountAhead(recording', r)) - Bit(w \in CountAhead(recording, r))
    <3>1. x \in Observed(recorded', r) <=> (m.at \in Observing /\ m.route = r)
      BY <1>5 DEF Observed, m
    <3>2. /\ w \notin CountAhead(recording', r)
          /\ w \in CountAhead(recording, r) <=> (m.at \in Observing /\ m.route = r)
      BY <1>2, <1>8 DEF CountAhead, m
    <3>3. count[r] \in Nat
      BY <1>1 DEF RecordTypes
    <3>. QED  BY <3>1, <3>2, <3>3 DEF Bit
  <2>. QED  BY <1>1, <1>3, <1>4, <2>1, CountStep DEF x
<1>13. BucketsExact'
  <2>1. ASSUME NEW r \in MetricRoutes, NEW i \in DOMAIN BucketBounds
        PROVE  buckets'[r][i] = buckets[r][i] + Bit(x \in Within(recorded', r, BucketBounds[i]))
    <3>1. x \in Within(recorded', r, BucketBounds[i]) <=>
            (e.route = r /\ e.observed # <<>> /\ e.observed[1] <= BucketBounds[i])
      BY <1>5 DEF Within, Observed
    <3>. QED  BY <3>1 DEF Bit
  <2>. QED  BY <1>1, <1>3, <1>4, <2>1, BucketsStep DEF x
<1>. QED  BY <1>6, <1>9, <1>10, <1>11, <1>12, <1>13 DEF MetricsInv

LEMMA LoseAnswerExact == ASSUME MetricsInv, NEW w \in Workers, LoseAnswer(w) PROVE MetricsInv'
<1>. DEFINE m == recording[w]
            e == [route |-> m.route, status |-> m.status, observed |-> <<>>]
<1>1. /\ m.at = "write" /\ recorded' = Append(recorded, e)
      /\ recording' = [recording EXCEPT ![w] = Idle]
      /\ requestsTotal' = requestsTotal /\ statusTotal' = statusTotal /\ routeTotal' = routeTotal
      /\ count' = count /\ sum' = sum /\ buckets' = buckets
  BY DEF LoseAnswer, Moves
<1>2. RecordTypes /\ SumExact
  BY DEF MetricsInv
<1>3. /\ e.route = m.route /\ e.status = m.status /\ e.observed = <<>>
      /\ m.at \in AfterStatus /\ m.at \notin Observing
  BY <1>1 DEF AfterStatus, Observing
<1>. HIDE DEF e
<1>4. SumExact'
  <2>1. SUFFICES ASSUME NEW r \in MetricRoutes PROVE SumIs(sum[r], recorded', recording', r)
    BY <1>1 DEF SumExact
  <2>2. /\ recording'[w] = Idle /\ \A v \in Workers \ {w} : recording'[v] = recording[v]
    <3>1. Shape(Idle)
      BY DEF Shape
    <3>. QED  BY <1>1, <1>2, <3>1, ShapeStays
  <2>3. /\ SumAhead(recording', r) = SumAhead(recording, r)
        /\ \A v \in SumAhead(recording, r) : recording'[v].duration = recording[v].duration
    BY <1>1, <2>2 DEF SumAhead, Idle
  <2>4. PICK S : recorded \in Seq(S)
    BY <1>2 DEF RecordTypes
  <2>5. SumIs(sum[r], recorded, recording, r)
    BY <1>2 DEF SumExact
  <2>6. SumIs(sum[r], recorded', recording, r)
    BY <1>1, <1>3, <2>4, <2>5, SumUnobserved
  <2>. QED  BY <2>3, <2>6, SumKept
<1>5. /\ buckets' \in [MetricRoutes -> [DOMAIN BucketBounds -> Nat]]
      /\ \A r \in MetricRoutes : \A i \in DOMAIN BucketBounds : buckets'[r][i] = buckets[r][i]
           + Bit(e.route = r /\ e.observed # <<>> /\ e.observed[1] <= BucketBounds[i])
  <2>1. buckets \in [MetricRoutes -> [DOMAIN BucketBounds -> Nat]]
    BY <1>2 DEF RecordTypes
  <2>. QED  BY <1>1, <1>3, <2>1 DEF Bit
<1>. QED  BY <1>1, <1>3, <1>4, <1>5, RecordedStep

LEMMA AddToBucketsExact == ASSUME MetricsInv, NEW w \in Workers, AddToBuckets(w) PROVE MetricsInv'
<1>. DEFINE m == recording[w]
            e == [route |-> m.route, status |-> m.status, observed |-> <<m.duration>>]
<1>1. /\ m.at = "buckets" /\ recorded' = Append(recorded, e)
      /\ recording' = [recording EXCEPT ![w] = Idle]
      /\ requestsTotal' = requestsTotal /\ statusTotal' = statusTotal /\ routeTotal' = routeTotal
      /\ count' = count /\ sum' = sum
      /\ buckets' = [buckets EXCEPT ![m.route] =
           [i \in DOMAIN BucketBounds |-> @[i] + (IF m.duration <= BucketBounds[i] THEN 1 ELSE 0)]]
  BY DEF AddToBuckets, Moves
<1>2. RecordTypes /\ SumExact
  BY DEF MetricsInv
<1>3. /\ e.route = m.route /\ e.status = m.status /\ e.observed = <<m.duration>>
      /\ e.observed # <<>> /\ e.observed[1] = m.duration
      /\ m.at \in AfterStatus /\ m.at \in Observing
  BY <1>1 DEF AfterStatus, Observing
<1>4. m.route \in MetricRoutes /\ m.duration \in Nat
  <2>1. Shape(m) /\ m # Idle
    BY <1>1, <1>2 DEF RecordTypes, Idle
  <2>. QED  BY <1>3, <2>1 DEF Shape
<1>. HIDE DEF e
<1>5. SumExact'
  <2>1. SUFFICES ASSUME NEW r \in MetricRoutes PROVE SumIs(sum[r], recorded', recording', r)
    BY <1>1 DEF SumExact
  <2>2. /\ recording'[w] = Idle /\ \A v \in Workers \ {w} : recording'[v] = recording[v]
    <3>1. Shape(Idle)
      BY DEF Shape
    <3>. QED  BY <1>1, <1>2, <3>1, ShapeStays
  <2>3. PICK S : recorded \in Seq(S)
    BY <1>2 DEF RecordTypes
  <2>4. SumIs(sum[r], recorded, recording, r)
    BY <1>2 DEF SumExact
  <2>5. CASE r = m.route
    <3>1. w \in SumAhead(recording, r) /\ w \notin SumAhead(recording', r)
      BY <1>1, <2>2, <2>5 DEF SumAhead, Idle
    <3>2. e.route = r /\ e.observed = <<recording[w].duration>> /\ recording[w].duration \in Nat
      BY <1>3, <1>4, <2>5
    <3>3. SumIs(sum[r], Append(recorded, e), recording', r)
      BY <2>2, <2>3, <2>4, <3>1, <3>2, SumRecorded
    <3>. QED  BY <1>1, <3>3
  <2>6. CASE r # m.route
    <3>1. /\ SumAhead(recording', r) = SumAhead(recording, r)
          /\ \A v \in SumAhead(recording, r) : recording'[v].duration = recording[v].duration
      BY <2>2, <2>6 DEF SumAhead, Idle
    <3>2. SumIs(sum[r], recorded', recording, r)
      BY <1>1, <1>3, <2>3, <2>4, <2>6, SumUnobserved
    <3>. QED  BY <3>1, <3>2, SumKept
  <2>. QED  BY <2>5, <2>6
<1>6. /\ buckets' \in [MetricRoutes -> [DOMAIN BucketBounds -> Nat]]
      /\ \A r \in MetricRoutes : \A i \in DOMAIN BucketBounds : buckets'[r][i] = buckets[r][i]
           + Bit(e.route = r /\ e.observed # <<>> /\ e.observed[1] <= BucketBounds[i])
  <2>. DEFINE b == buckets[m.route]
              c == [i \in DOMAIN BucketBounds |-> b[i] + (IF m.duration <= BucketBounds[i] THEN 1 ELSE 0)]
  <2>1. buckets \in [MetricRoutes -> [DOMAIN BucketBounds -> Nat]]
    BY <1>2 DEF RecordTypes
  <2>2. c \in [DOMAIN BucketBounds -> Nat]
    BY <1>4, <2>1
  <2>3. \A i \in DOMAIN BucketBounds : c[i] = b[i] + Bit(m.duration <= BucketBounds[i])
    BY DEF Bit
  <2>4. buckets' = [buckets EXCEPT ![m.route] = c]
    BY <1>1
  <2>. HIDE DEF c
  <2>5. buckets' \in [MetricRoutes -> [DOMAIN BucketBounds -> Nat]]
        /\ buckets'[m.route] = c /\ \A r \in MetricRoutes \ {m.route} : buckets'[r] = buckets[r]
    BY <1>4, <2>1, <2>2, <2>4
  <2>6. ASSUME NEW r \in MetricRoutes, NEW i \in DOMAIN BucketBounds
        PROVE  buckets'[r][i] = buckets[r][i]
           + Bit(e.route = r /\ e.observed # <<>> /\ e.observed[1] <= BucketBounds[i])
    <3>1. CASE r = m.route
      <4>1. (e.route = r /\ e.observed # <<>> /\ e.observed[1] <= BucketBounds[i])
              <=> m.duration <= BucketBounds[i]
        BY <1>3, <3>1
      <4>. QED  BY <2>3, <2>5, <3>1, <4>1 DEF Bit
    <3>2. CASE r # m.route
      <4>1. ~(e.route = r /\ e.observed # <<>> /\ e.observed[1] <= BucketBounds[i])
        BY <1>3, <3>2
      <4>2. buckets[r][i] \in Nat
        BY <2>1
      <4>. QED  BY <2>5, <3>2, <4>1, <4>2 DEF Bit
    <3>. QED  BY <3>1, <3>2
  <2>. QED  BY <2>5, <2>6
<1>. QED  BY <1>1, <1>3, <1>5, <1>6, RecordedStep

\* Before anything is recorded, and when nobody is recording.
LEMMA EmptyLog ==
  /\ \A s : WithStatus(<<>>, s) = {}
  /\ \A r : OnRoute(<<>>, r) = {} /\ Observed(<<>>, r) = {}
  /\ \A r, b : Within(<<>>, r, b) = {}
<1>1. DOMAIN <<>> = {}
  OBVIOUS
<1>2. \A s : WithStatus(<<>>, s) = {}
  BY <1>1 DEF WithStatus
<1>3. \A r : OnRoute(<<>>, r) = {} /\ Observed(<<>>, r) = {}
  BY <1>1 DEF OnRoute, Observed
<1>4. \A r, b : Within(<<>>, r, b) = {}
  BY <1>1 DEF Within, Observed
<1>. QED  BY <1>2, <1>3, <1>4

LEMMA NobodyAhead ==
  ASSUME Quiet
  PROVE  /\ TotalAhead(recording) = {}
         /\ \A s : StatusAhead(recording, s) = {}
         /\ \A r : /\ RouteAhead(recording, r) = {} /\ CountAhead(recording, r) = {}
                   /\ SumAhead(recording, r) = {}
<1>1. \A w \in Workers : recording[w].at = "idle"
  BY DEF Quiet, Idle
<1>2. TotalAhead(recording) = {}
  BY <1>1 DEF TotalAhead, AfterTotal
<1>3. \A s : StatusAhead(recording, s) = {}
  BY <1>1 DEF StatusAhead, AfterStatus
<1>4. \A r : RouteAhead(recording, r) = {}
  BY <1>1 DEF RouteAhead, AfterRoute
<1>5. \A r : CountAhead(recording, r) = {} /\ SumAhead(recording, r) = {}
  BY <1>1 DEF CountAhead, SumAhead, Observing
<1>. QED  BY <1>2, <1>3, <1>4, <1>5

LEMMA CountsAreNat ==
  ASSUME NEW S, NEW log \in Seq(S)
  PROVE  /\ \A s : Cardinality(WithStatus(log, s)) \in Nat
         /\ \A r : Cardinality(OnRoute(log, r)) \in Nat /\ Cardinality(Observed(log, r)) \in Nat
<1>1. /\ \A s : IsFiniteSet(WithStatus(log, s))
      /\ \A r : IsFiniteSet(OnRoute(log, r)) /\ IsFiniteSet(Observed(log, r))
  BY LogSets DEF Grows
<1>. QED  BY <1>1, FS_CardinalityType

\* The metrics of any number of workers are exact once nobody is recording.
THEOREM MetricsAreExact == Spec => []MetricsExact
<1>1. Init => config \in Configs /\ MetricsInv
  <2>. SUFFICES ASSUME Init PROVE config \in Configs /\ MetricsInv
    OBVIOUS
  <2>1. /\ config \in Configs
        /\ requestsTotal = 0 /\ routeTotal = [r \in MetricRoutes |-> 0]
        /\ statusTotal = [s \in StatusLabels |-> 0] /\ count = [r \in MetricRoutes |-> 0]
        /\ sum = [r \in MetricRoutes |-> 0]
        /\ buckets = [r \in MetricRoutes |-> [i \in DOMAIN BucketBounds |-> 0]]
        /\ recording = [w \in Workers |-> Idle] /\ recorded = <<>>
    BY DEF Init, MetricsInit
  <2>2. RecordTypes
    <3>1. recorded \in Seq({})
      BY <2>1
    <3>2. /\ recording = [w \in Workers |-> recording[w]]
          /\ \A w \in Workers : Shape(recording[w])
      BY <2>1 DEF Shape
    <3>3. buckets \in [MetricRoutes -> [DOMAIN BucketBounds -> Nat]]
      BY <2>1
    <3>. QED  BY <2>1, <3>1, <3>2, <3>3 DEF RecordTypes
  <2>3. /\ TotalAhead(recording) = {}
        /\ \A s : StatusAhead(recording, s) = {} /\ WithStatus(recorded, s) = {}
        /\ \A r : /\ RouteAhead(recording, r) = {} /\ OnRoute(recorded, r) = {}
                  /\ CountAhead(recording, r) = {} /\ Observed(recorded, r) = {}
                  /\ SumAhead(recording, r) = {}
        /\ \A r, b : Within(recorded, r, b) = {}
    BY NobodyAhead, EmptyLog, <2>1 DEF Quiet
  <2>4. Cardinality({}) = 0 /\ Len(recorded) = 0
    BY <2>1, FS_EmptySet
  <2>5. TotalExact /\ StatusExact /\ RouteExact /\ CountExact /\ BucketsExact
    <3>0. /\ Cardinality(TotalAhead(recording)) = 0
          /\ \A s : /\ Cardinality(StatusAhead(recording, s)) = 0
                    /\ Cardinality(WithStatus(recorded, s)) = 0
          /\ \A r : /\ Cardinality(RouteAhead(recording, r)) = 0
                    /\ Cardinality(OnRoute(recorded, r)) = 0
                    /\ Cardinality(CountAhead(recording, r)) = 0
                    /\ Cardinality(Observed(recorded, r)) = 0
      BY <2>3, <2>4
    <3>1. TotalExact
      BY <2>1, <2>4, <3>0 DEF TotalExact
    <3>2. StatusExact
      BY <2>1, <3>0 DEF StatusExact
    <3>3. RouteExact
      BY <2>1, <3>0 DEF RouteExact
    <3>4. CountExact
      BY <2>1, <3>0 DEF CountExact
    <3>5. BucketsExact
      BY <2>1, <2>3, <2>4 DEF BucketsExact
    <3>. QED  BY <3>1, <3>2, <3>3, <3>4, <3>5
  <2>6. SumExact
    <3>. DEFINE u == [i \in 0..0 |-> 0]
                g == [T \in SUBSET Workers |-> 0]
    <3>1. ASSUME NEW r \in MetricRoutes PROVE SumIs(sum[r], recorded, recording, r)
      <4>1. AddsLog(u, recorded, r)
        BY <2>4 DEF AddsLog
      <4>2. AddsWorkers(g, recording, {})
        BY DEF AddsWorkers
      <4>3. sum[r] = u[Len(recorded)] + g[{}]
        BY <2>1, <2>4
      <4>. HIDE DEF u, g
      <4>. QED  BY <2>3, <4>1, <4>2, <4>3 DEF SumIs
    <3>. QED  BY <3>1 DEF SumExact
  <2>. QED  BY <2>1, <2>2, <2>5, <2>6 DEF MetricsInv
<1>2. ASSUME config \in Configs, MetricsInv, [Next]_vars
      PROVE  (config \in Configs /\ MetricsInv)'
  <2>1. ASSUME NEW w \in Workers, Serve(w) PROVE MetricsInv' /\ config' = config
    BY <1>2, <2>1, ServeExact DEF Serve
  <2>2. ASSUME NEW w \in Workers, RecordStep(w) PROVE MetricsInv' /\ config' = config
    BY <1>2, <2>2, CountTotalExact, CountRouteExact, CountStatusExact, LoseAnswerExact,
       ObserveCountExact, LoadSumExact, SwapSumExact, AddToBucketsExact DEF RecordStep, Record
  <2>3. ASSUME UNCHANGED <<config, metrics>> PROVE MetricsInv' /\ config' = config
    BY <1>2, <2>3 DEF metrics, MetricsInv, RecordTypes, TotalExact, StatusExact, RouteExact,
                      CountExact, SumExact, BucketsExact
  <2>4. ASSUME NEW w \in Workers, RefuseHead(w) PROVE MetricsInv' /\ config' = config
    BY <2>3, <2>4 DEF RefuseHead
  <2>5. CASE UNCHANGED vars
    BY <1>2, <2>5 DEF vars, metrics, MetricsInv, RecordTypes, TotalExact, StatusExact, RouteExact,
                      CountExact, SumExact, BucketsExact
  <2>. QED  BY <1>2, <2>1, <2>2, <2>4, <2>5 DEF Next
<1>3. MetricsInv => MetricsExact
  <2>. SUFFICES ASSUME MetricsInv, Quiet PROVE MetricsExact
    BY DEF MetricsExact
  <2>1. RecordTypes /\ TotalExact /\ StatusExact /\ RouteExact /\ CountExact /\ SumExact /\ BucketsExact
    BY DEF MetricsInv
  <2>2. /\ TotalAhead(recording) = {}
        /\ \A s : StatusAhead(recording, s) = {}
        /\ \A r : /\ RouteAhead(recording, r) = {} /\ CountAhead(recording, r) = {}
                  /\ SumAhead(recording, r) = {}
    BY NobodyAhead
  <2>3. Cardinality({}) = 0
    BY FS_EmptySet
  <2>4. PICK S : recorded \in Seq(S)
    BY <2>1 DEF RecordTypes
  <2>5. Len(recorded) \in Nat
    BY <2>4
  <2>6. requestsTotal = Len(recorded)
    BY <2>1, <2>2, <2>3, <2>5 DEF TotalExact
  <2>7. ASSUME NEW s \in StatusLabels
        PROVE  statusTotal[s] = HowMany(LAMBDA e : StatusCounter(e.status) = s)
    <3>1. Cardinality(WithStatus(recorded, s)) \in Nat
      BY <2>4, CountsAreNat
    <3>2. statusTotal[s] = Cardinality(WithStatus(recorded, s)) + 0
      BY <2>1, <2>2, <2>3 DEF StatusExact
    <3>3. HowMany(LAMBDA e : StatusCounter(e.status) = s) = Cardinality(WithStatus(recorded, s))
      BY DEF HowMany, WithStatus
    <3>. QED  BY <3>1, <3>2, <3>3
  <2>8. ASSUME NEW r \in MetricRoutes
        PROVE  routeTotal[r] = HowMany(LAMBDA e : e.route = r)
    <3>1. Cardinality(OnRoute(recorded, r)) \in Nat
      BY <2>4, CountsAreNat
    <3>2. routeTotal[r] = Cardinality(OnRoute(recorded, r)) + 0
      BY <2>1, <2>2, <2>3 DEF RouteExact
    <3>3. HowMany(LAMBDA e : e.route = r) = Cardinality(OnRoute(recorded, r))
      BY DEF HowMany, OnRoute
    <3>. QED  BY <3>1, <3>2, <3>3
  <2>9. ASSUME NEW r \in MetricRoutes PROVE count[r] = Cardinality(ObservedOn(r))
    <3>1. Cardinality(Observed(recorded, r)) \in Nat
      BY <2>4, CountsAreNat
    <3>2. count[r] = Cardinality(Observed(recorded, r)) + 0
      BY <2>1, <2>2, <2>3 DEF CountExact
    <3>3. ObservedOn(r) = Observed(recorded, r)
      BY DEF ObservedOn, Observed
    <3>. QED  BY <3>1, <3>2, <3>3
  <2>10. ASSUME NEW r \in MetricRoutes PROVE sum[r] = DurationOn(r)
    BY <2>1, <2>2, <2>4, SumOfLog DEF SumExact
  <2>11. ASSUME NEW r \in MetricRoutes, NEW i \in DOMAIN BucketBounds
         PROVE  buckets[r][i] =
                  Cardinality({k \in ObservedOn(r) : recorded[k].observed[1] <= BucketBounds[i]})
    <3>1. Within(recorded, r, BucketBounds[i]) =
            {k \in ObservedOn(r) : recorded[k].observed[1] <= BucketBounds[i]}
      BY DEF Within, Observed, ObservedOn
    <3>2. buckets[r][i] = Cardinality(Within(recorded, r, BucketBounds[i]))
      BY <2>1 DEF BucketsExact
    <3>. QED  BY <3>1, <3>2
  <2>. QED  BY <2>6, <2>7, <2>8, <2>9, <2>10, <2>11 DEF MetricsExact
<1>. QED  BY <1>1, <1>2, <1>3, PTL DEF Spec
=============================================================================
