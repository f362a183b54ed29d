----------------------------- MODULE Connection -----------------------------
(***************************************************************************)
(* One client connection: handle_stream of src/adapters/server/routing.rs  *)
(* and the request reader of http_parse.rs.  Requests are cut out of a     *)
(* byte stream whose packets the client does not control, refused early    *)
(* or handled, answered, counted and logged, until the connection closes.  *)
(*                                                                         *)
(* A byte is a record: the request it was written for and its place in it  *)
(* (which the server cannot see), and whether a header terminator ends     *)
(* there (which is all the reader looks for).  The four bytes of the       *)
(* terminator are one byte here.  A body may contain terminators too.      *)
(***************************************************************************)
EXTENDS Integers, Sequences, SequencesExt

CONSTANTS
  Plans,         \* the sequences of requests a client may send
  Chunk,         \* CHUNK_READ_SIZE
  MaxHeader,     \* MAX_HEADER_BYTES
  MaxUpload,     \* max_upload_bytes, the limit of a multipart body
  MaxBody,       \* MAX_REQUEST_BODY_BYTES, the limit of any other body
  KeepAliveMax   \* keep_alive_max_requests

\* A request: the lengths of its header and body, whether its body holds header
\* terminators, whether its header is malformed or names a multipart body, and
\* whether it asks for the connection to close.
PlannedRequests ==
  [head : Nat, body : Nat, twin : BOOLEAN, bad : BOOLEAN, multipart : BOOLEAN, close : BOOLEAN]

ASSUME ConnectionAssumption ==
  /\ Plans \subseteq Seq(PlannedRequests)
  /\ {MaxHeader, MaxUpload, MaxBody} \subseteq Nat
  /\ Chunk \in Nat \ {0} /\ KeepAliveMax \in Nat \ {0}

VARIABLES
  plan,      \* the requests of this client
  pos,       \* bytes of the stream that have been read
  pc,        \* where handle_stream is
  buf,       \* bytes read and not yet part of a request
  cur,       \* header bytes of the current request
  body,      \* body bytes of the current request
  served,    \* requests_served
  handled,   \* history: header and body of each request given to route_request
  answers,   \* answers written, in order
  cause,     \* history: why the connection closed
  counted,   \* record_http_metrics calls
  logged     \* access log lines

io == <<plan, pos>>
connectionVars == <<plan, pos, pc, buf, cur, body, served, handled, answers, cause, counted, logged>>

\* The bytes a client writes for its i-th request.
Bytes(i) ==
  [k \in 1..(plan[i].head + 1 + plan[i].body) |->
     [of |-> i, at |-> k, end |-> k = plan[i].head + 1 \/ (k > plan[i].head + 1 /\ plan[i].twin)]]
HeadOf(i) == SubSeq(Bytes(i), 1, plan[i].head)
BodyOf(i) == SubSeq(Bytes(i), plan[i].head + 2, Len(Bytes(i)))

\* The stream up to the end of the i-th request, and all of it.
Written(i) == FlattenSeq([j \in 1..i |-> Bytes(j)])
Stream == Written(Len(plan))

Take(s, n) == SubSeq(s, 1, n)
Drop(s, n) == SubSeq(s, n + 1, Len(s))

\* find_header_terminator
Ends(s) == {k \in 1..Len(s) : s[k].end}
HeaderEnd(s) == CHOOSE k \in Ends(s) : \A j \in Ends(s) : k <= j

\* What a read of the socket may return: at most a chunk, at least a byte.
Reads == {SubSeq(Stream, pos + 1, pos + n) : n \in 1..Min({Chunk, Len(Stream) - pos})}

\* The request the header bytes in hand were written as.
Request == plan[cur[1].of]

ConnectionInit ==
  /\ plan \in Plans
  /\ pos = 0
  /\ pc = "head"
  /\ buf = <<>> /\ cur = <<>> /\ body = <<>>
  /\ served = 0
  /\ handled = <<>> /\ answers = <<>>
  /\ cause = "none"
  /\ counted = 0 /\ logged = 0

Answered(to, status, close) ==
  answers' = Append(answers, [to |-> to, status |-> status, close |-> close])

-----------------------------------------------------------------------------
(* read_request_headers *)

\* A header that cannot be read: the first request of a connection is told,
\* a later one finds the connection closed.  Neither is counted or logged.
HeadError(why, status) ==
  /\ pc' = "closed"
  /\ cause' = why
  /\ IF served > 0 THEN UNCHANGED answers ELSE Answered(1, status, TRUE)
  /\ UNCHANGED <<cur, body, served, handled, counted, logged>>

\* A read while no terminator is in the buffer.
ReadHead ==
  /\ pc = "head" /\ Ends(buf) = {}
  /\ \E r \in Reads :
       /\ pos' = pos + Len(r)
       /\ buf' = buf \o r
  /\ IF \/ Len(buf') > MaxHeader + MaxUpload
        \/ Ends(buf') = {} /\ Len(buf') > MaxHeader
       THEN HeadError("large", "too_large")
       ELSE UNCHANGED <<pc, cur, body, served, handled, answers, cause, counted, logged>>
  /\ UNCHANGED plan

\* Mutant: the socket is read before the carried bytes are looked at.
HeadFailsFirst ==
  /\ pc = "head"
  /\ \/ HeadError("ended", "bad_request")
     \/ HeadError("stalled", "timeout")
     \/ HeadError("io", "internal")
  /\ UNCHANGED <<io, buf>>

\* The client closes, stays silent or trickles past the deadline, or the
\* socket fails.
HeadFails ==
  /\ pc = "head" /\ Ends(buf) = {}
  /\ \/ HeadError("ended", "bad_request")
     \/ HeadError("stalled", "timeout")
     \/ HeadError("io", "internal")
  /\ UNCHANGED <<io, buf>>

\* The checks on a complete header, in their order.
HeaderProblem(e) ==
  LET q == plan[buf[1].of]
  IN CASE e - 1 > MaxHeader -> "large"
       [] e = 1 \/ q.bad -> "malformed"
       [] q.body > (IF q.multipart THEN MaxUpload ELSE MaxBody) -> "large"
       [] OTHER -> "none"

\* The terminator is in the buffer, from this read or from an earlier one: the
\* header is parsed and checked, and the bytes behind it are kept.
ParseHead ==
  /\ pc = "head" /\ Ends(buf) # {}
  /\ LET e == HeaderEnd(buf)
         why == HeaderProblem(e)
     IN IF why # "none"
          THEN /\ HeadError(why, IF why = "large" THEN "too_large" ELSE "bad_request")
               /\ UNCHANGED buf
          ELSE /\ pc' = "admit"
               /\ cur' = Take(buf, e - 1)
               /\ buf' = Drop(buf, e)
               /\ UNCHANGED <<body, served, handled, answers, cause, counted, logged>>
  /\ UNCHANGED io

-----------------------------------------------------------------------------
(* Early refusals and the body *)

\* An answer given without the whole body: counted, written with close, and
\* logged whether or not the write succeeded.
Refused(why, status) ==
  /\ pc' = "closed"
  /\ cause' = why
  /\ Answered(cur[1].of, status, TRUE)
  /\ counted' = counted + 1
  /\ logged' = logged + 1

\* The rate limit, the credentials of the routes that read a body, and those of
\* /metrics and /health.
RefuseEarly ==
  /\ pc = "admit"
  /\ Refused("refused", "refused")
  /\ UNCHANGED <<io, buf, cur, body, served, handled>>

\* read_request_body starts from what was read past the header.
Admit ==
  /\ pc = "admit"
  /\ pc' = "body"
  /\ LET n == Min({Len(buf), Request.body})
     IN body' = Take(buf, n) /\ buf' = Drop(buf, n)
  /\ UNCHANGED <<io, cur, served, handled, answers, cause, counted, logged>>

ReadBody ==
  /\ pc = "body" /\ Len(body) < Request.body
  /\ \E r \in Reads : pos' = pos + Len(r) /\ body' = body \o r
  /\ UNCHANGED <<plan, pc, buf, cur, served, handled, answers, cause, counted, logged>>

\* The client closes or stalls before the body is whole, or the socket fails.
BodyFails ==
  /\ pc = "body" /\ Len(body) < Request.body
  /\ \/ Refused("ended", "bad_request")
     \/ Refused("stalled", "internal")
     \/ Refused("io", "internal")
  /\ UNCHANGED <<io, buf, cur, body, served, handled>>

\* Mutant: the last read is not cut at the content length.
BodyReadUncut ==
  /\ pc = "body" /\ Len(body) >= Request.body
  /\ pc' = "route"
  /\ UNCHANGED <<io, buf, cur, body, served, handled, answers, cause, counted, logged>>

\* The body is whole; what was read past it goes in front of the rest.
BodyRead ==
  /\ pc = "body" /\ Len(body) >= Request.body
  /\ pc' = "route"
  /\ body' = Take(body, Request.body)
  /\ buf' = Drop(body, Request.body) \o buf
  /\ UNCHANGED <<io, cur, served, handled, answers, cause, counted, logged>>

-----------------------------------------------------------------------------
(* The request and its answer *)

\* route_request chooses an answer, which is counted before it is written.
Route ==
  /\ pc = "route"
  /\ pc' = "write"
  /\ handled' = Append(handled, [head |-> cur, body |-> body])
  /\ counted' = counted + 1
  /\ served' = served + 1
  /\ UNCHANGED <<io, buf, cur, body, answers, cause, logged>>

\* The handler panics: the worker drops the connection.
RoutePanics ==
  /\ pc = "route"
  /\ pc' = "closed"
  /\ cause' = "panic"
  /\ handled' = Append(handled, [head |-> cur, body |-> body])
  /\ UNCHANGED <<io, buf, cur, body, served, answers, counted, logged>>

\* close_after
CloseAfter == Request.close \/ served >= KeepAliveMax

\* The answer is written and logged, and the connection goes on with the bytes
\* left over unless it closes.
WriteAnswer ==
  /\ pc = "write"
  /\ Answered(cur[1].of, "handled", CloseAfter)
  /\ logged' = logged + 1
  /\ pc' = IF CloseAfter THEN "closed" ELSE "head"
  /\ cause' = IF CloseAfter THEN "done" ELSE cause
  /\ UNCHANGED <<io, buf, cur, body, served, handled, counted>>

\* The write fails: handle_stream returns the error at once.
WriteFails ==
  /\ pc = "write"
  /\ pc' = "closed"
  /\ cause' = "broken"
  /\ UNCHANGED <<io, buf, cur, body, served, handled, answers, counted, logged>>

ConnectionNext ==
  \/ ReadHead \/ HeadFails \/ ParseHead
  \/ RefuseEarly \/ Admit \/ ReadBody \/ BodyFails \/ BodyRead
  \/ Route \/ RoutePanics \/ WriteAnswer \/ WriteFails

ConnectionSpec == ConnectionInit /\ [][ConnectionNext]_connectionVars

-----------------------------------------------------------------------------
(* Properties *)

PCs == {"head", "admit", "body", "route", "write", "closed"}
Statuses == {"bad_request", "timeout", "internal", "too_large", "refused", "handled"}
Causes == {"none", "large", "ended", "stalled", "io", "malformed", "refused", "panic",
           "done", "broken"}
Symbols == [of : 1..Len(plan), at : Nat \ {0}, end : BOOLEAN]

\* Types of the state; no request is counted or logged twice.
ConnectionTypes ==
  /\ plan \in Plans
  /\ pos \in 0..Len(Stream)
  /\ pc \in PCs
  /\ {buf, cur, body} \subseteq Seq(Symbols)
  /\ served \in 0..Len(plan)
  /\ handled \in Seq([head : Seq(Symbols), body : Seq(Symbols)])
  /\ answers \in Seq([to : 1..Len(plan), status : Statuses, close : BOOLEAN])
  /\ cause \in Causes /\ (cause = "none" <=> pc # "closed")
  /\ counted \in 0..Len(plan) /\ logged \in 0..counted

\* The server cuts the stream where the client did, however the bytes were
\* packetised and whatever a body contains: the i-th request it handles is the
\* i-th one that was written, with exactly its header and its body.  In
\* particular no body byte is ever taken for a request.
Framed ==
  \A i \in 1..Len(handled) : handled[i] = [head |-> HeadOf(i), body |-> BodyOf(i)]

\* A request that arrived whole is not lost to a client that then closes or
\* falls silent: before the server waits for more, it has handled every request
\* it already holds.
WholeRequestsServed ==
  pc = "closed" /\ cause \in {"ended", "stalled", "io"} =>
    \A i \in 1..Len(plan) :
      Len(Written(i)) <= pos => i <= Len(handled)

\* "Every request emits a JSON access log line" (docs/configuration.md), also
\* when the client is no longer there to receive its answer: every request the
\* metrics count has been logged when the connection is over.
EveryRequestLogged == pc = "closed" => logged = counted

\* A client that "stopped sending before the request line, headers, or body
\* were complete" is answered 408 (docs/problems.md, request-timeout).
StalledIsTimeout ==
  cause = "stalled" /\ served = 0 => Last(answers).status = "timeout"
=============================================================================
