------------------------------- MODULE Metrics -------------------------------
(***************************************************************************)
(* The request metrics (src/adapters/server/metrics.rs).  Every worker     *)
(* counts its requests in process-wide atomics, one relaxed operation at a *)
(* time, so the operations of several workers interleave.  A histogram has *)
(* a count, a sum and cumulative buckets; the sum is an f64 kept in a u64, *)
(* so adding to it is a load and a compare-exchange that is tried again.   *)
(*                                                                         *)
(* Only the counters' final values are spoken of: a relaxed                *)
(* read-modify-write always works on the latest value of its own location, *)
(* but a scrape may see the locations at different times.                  *)
(***************************************************************************)
EXTENDS Integers, Sequences, FiniteSets

CONSTANTS
  Workers,        \* the worker threads
  MetricRoutes,   \* RouteMetric
  BucketBounds,   \* BUCKET_BOUNDS, ascending
  Durations       \* how long requests take

ASSUME MetricsAssumption ==
  /\ IsFiniteSet(Workers)
  /\ BucketBounds \in Seq(Nat)
  /\ Durations \subseteq Nat

VARIABLES
  requestsTotal,  \* HTTP_REQUESTS_TOTAL
  routeTotal,     \* route_counter
  statusTotal,    \* status_counter
  count,          \* HTTP_REQUEST_DURATION: its count,
  sum,            \*   its sum,
  buckets,        \*   and its buckets
  recording,      \* what each worker is about to record, and where it is
  recorded        \* history: the answers recorded, in order

metrics == <<requestsTotal, routeTotal, statusTotal, count, sum, buckets, recording, recorded>>

\* status_counter: the statuses with a counter of their own.
OwnCounter == {200, 304, 400, 401, 403, 404, 406, 413, 415, 500, 501, 502, 503, 508}
StatusLabels == OwnCounter \cup {0}
StatusCounter(status) == IF status \in OwnCounter THEN status ELSE 0

Idle == [at |-> "idle"]

MetricsInit ==
  /\ requestsTotal = 0
  /\ routeTotal = [r \in MetricRoutes |-> 0]
  /\ statusTotal = [s \in StatusLabels |-> 0]
  /\ count = [r \in MetricRoutes |-> 0]
  /\ sum = [r \in MetricRoutes |-> 0]
  /\ buckets = [r \in MetricRoutes |-> [i \in DOMAIN BucketBounds |-> 0]]
  /\ recording = [w \in Workers |-> Idle]
  /\ recorded = <<>>

----------------------------------------------------------------------------

\* A worker has an answer to record.  `observe` is whether the duration is
\* recorded even when the answer could not be written.
StartRecording(w, route, status, refused) ==
  /\ recording[w] = Idle
  /\ recording' = [recording EXCEPT ![w] =
       [at |-> "total", route |-> route, status |-> status, refused |-> refused]]

Moves(w, next) == recording' = [recording EXCEPT ![w] = next]
Goes(w, at) == Moves(w, [recording[w] EXCEPT !.at = at])

\* record_http_metrics: three counters, one after the other.
CountTotal(w) ==
  /\ recording[w].at = "total"
  /\ requestsTotal' = requestsTotal + 1
  /\ Goes(w, "route")
  /\ UNCHANGED <<routeTotal, statusTotal, count, sum, buckets, recorded>>

CountRoute(w) ==
  /\ recording[w].at = "route"
  /\ routeTotal' = [routeTotal EXCEPT ![recording[w].route] = @ + 1]
  /\ Goes(w, "status")
  /\ UNCHANGED <<requestsTotal, statusTotal, count, sum, buckets, recorded>>

CountStatus(w) ==
  /\ recording[w].at = "status"
  /\ statusTotal' = [statusTotal EXCEPT ![StatusCounter(recording[w].status)] = @ + 1]
  /\ Goes(w, "write")
  /\ UNCHANGED <<requestsTotal, routeTotal, count, sum, buckets, recorded>>

\* The `?` of the main path: an answer that cannot be written has no duration.
LoseAnswer(w) ==
  /\ recording[w].at = "write"
  /\ ~recording[w].refused
  /\ recorded' = Append(recorded, [route |-> recording[w].route, status |-> recording[w].status,
                                   observed |-> <<>>])
  /\ Moves(w, Idle)
  /\ UNCHANGED <<requestsTotal, routeTotal, statusTotal, count, sum, buckets>>

\* observe, its first step: the count.
ObserveCount(w) ==
  /\ recording[w].at = "write"
  /\ count' = [count EXCEPT ![recording[w].route] = @ + 1]
  /\ \E d \in Durations :
       Moves(w, [at |-> "load", route |-> recording[w].route, status |-> recording[w].status,
                 duration |-> d])
  /\ UNCHANGED <<requestsTotal, routeTotal, statusTotal, sum, buckets, recorded>>

\* The loop that adds to the sum.
LoadSum(w) ==
  /\ recording[w].at = "load"
  /\ Moves(w, [at |-> "swap", route |-> recording[w].route, status |-> recording[w].status,
               duration |-> recording[w].duration, old |-> sum[recording[w].route]])
  /\ UNCHANGED <<requestsTotal, routeTotal, statusTotal, count, sum, buckets, recorded>>

\* Mutant: the sum is stored without comparing it first.
SwapSumBlindly(w) ==
  /\ recording[w].at = "swap"
  /\ sum' = [sum EXCEPT ![recording[w].route] = recording[w].old + recording[w].duration]
  /\ Goes(w, "buckets")
  /\ UNCHANGED <<requestsTotal, routeTotal, statusTotal, count, buckets, recorded>>

\* compare_exchange_weak: it fails when another worker was faster, and goes
\* back to the load; a spurious failure only repeats that.
SwapSum(w) ==
  LET r == recording[w] IN
  /\ r.at = "swap"
  /\ IF sum[r.route] = r.old
     THEN /\ sum' = [sum EXCEPT ![r.route] = r.old + r.duration]
          /\ Goes(w, "buckets")
     ELSE /\ Goes(w, "load")
          /\ UNCHANGED sum
  /\ UNCHANGED <<requestsTotal, routeTotal, statusTotal, count, buckets, recorded>>

\* The buckets, ascending: each one whose bound the value does not exceed.
\* They are one step: no two additions to a bucket can be lost.
AddToBuckets(w) ==
  LET r == recording[w] IN
  /\ r.at = "buckets"
  /\ buckets' = [buckets EXCEPT ![r.route] =
       [i \in DOMAIN BucketBounds |-> @[i] + (IF r.duration <= BucketBounds[i] THEN 1 ELSE 0)]]
  /\ recorded' = Append(recorded, [route |-> r.route, status |-> r.status, observed |-> <<r.duration>>])
  /\ Moves(w, Idle)
  /\ UNCHANGED <<requestsTotal, routeTotal, statusTotal, count, sum>>

Record(w) ==
  \/ CountTotal(w) \/ CountRoute(w) \/ CountStatus(w) \/ LoseAnswer(w)
  \/ ObserveCount(w) \/ LoadSum(w) \/ SwapSum(w) \/ AddToBuckets(w)

----------------------------------------------------------------------------
(* What the counters must say once nobody is recording.                    *)

Quiet == \A w \in Workers : recording[w] = Idle

HowMany(P(_)) == Cardinality({i \in DOMAIN recorded : P(recorded[i])})

ObservedOn(r) == {i \in DOMAIN recorded : recorded[i].route = r /\ recorded[i].observed # <<>>}

\* The sum of the durations observed on a route.
DurationOn(r) ==
  LET upTo[i \in 0..Len(recorded)] ==
        IF i = 0 THEN 0
        ELSE upTo[i - 1] + (IF i \in ObservedOn(r) THEN recorded[i].observed[1] ELSE 0)
  IN upTo[Len(recorded)]

\* Nothing recorded is lost or counted twice, whatever the interleaving:
\* once the workers are done, the totals, the per-route and per-status
\* counters, and the count, sum and cumulative buckets of every duration
\* histogram are exactly those of the answers given (metrics.rs 143-167 and
\* 295-303), but for the refusals of a head that could not be read, which no
\* counter counts (routing.rs 194-210).
MetricsExact ==
  Quiet =>
    /\ requestsTotal = Len(recorded)
    /\ \A s \in StatusLabels :
         statusTotal[s] = HowMany(LAMBDA e : StatusCounter(e.status) = s)
    /\ \A r \in MetricRoutes :
         /\ routeTotal[r] = HowMany(LAMBDA e : e.route = r)
         /\ count[r] = Cardinality(ObservedOn(r))
         /\ sum[r] = DurationOn(r)
         /\ \A i \in DOMAIN BucketBounds :
              buckets[r][i] = Cardinality({k \in ObservedOn(r) : recorded[k].observed[1] <= BucketBounds[i]})
=============================================================================
