---------------------------- MODULE HealthCache ----------------------------
(***************************************************************************)
(* One resource check of the readiness probe: HealthCache of               *)
(* src/adapters/server/handler.rs, used by every worker without a lock.    *)
(* A measurement and the time it was taken are two atomics, and the        *)
(* hysteresis state is loaded, compared and stored in separate steps.      *)
(*                                                                         *)
(* Disk space and memory are the same code with opposite directions; the   *)
(* resource of a behaviour is one of them.                                 *)
(***************************************************************************)
EXTENDS Integers

CONSTANTS
  Threads,        \* workers answering probes
  Levels,         \* measurements
  CachedNone,     \* CACHED_NONE, the sentinel for a failed measurement
  Resources,      \* [higher : ThresholdDirection, threshold, recovery], where
                  \* recovery is (threshold * (1 -+ hysteresis_margin)) as u64
  TTL,            \* ttl_nanos
  MaxTime         \* bound: the clock stops here

\* A margin within its range puts recovery at or beyond the threshold, on the
\* good side.  parse_env_f64_ranged lets NaN through its two comparisons, and
\* then recovery is NaN as u64, which is 0.
ASSUME HealthAssumption ==
  /\ Levels \subseteq Nat /\ CachedNone \in Nat \ Levels
  /\ Resources \subseteq [higher : BOOLEAN, threshold : Nat, recovery : Nat]
  /\ \A x \in Resources :
       \/ x.recovery = 0
       \/ IF x.higher THEN x.recovery <= x.threshold ELSE x.recovery >= x.threshold
  /\ TTL \in Nat /\ MaxTime \in Nat \ {0}

VARIABLES
  resource, \* the resource that is checked, fixed from the start
  clock,    \* monotonic clock; 0 means "never measured"
  actual,   \* what the kernel would report now
  value,    \* disk_free or rss
  at,       \* disk_free_at or rss_at
  failing,  \* disk_state or rss_state
  pc,
  now,      \* per thread: the clock it read
  level,    \* per thread: the measurement it works with
  prev,     \* per thread: the hysteresis state it loaded
  ok,       \* per thread: its last answer
  taken,    \* history, per thread: when `level` was measured
  valueAt,  \* history: when `value` was measured
  breached, \* history: a failure was answered, and no recovery since
  late,     \* history, per thread: its probe began after a failure was answered
            \* that no answer has recovered from since
  alone     \* history: no two probes have overlapped so far

vars == <<resource, clock, actual, value, at, failing, pc, now, level, prev, ok,
          taken, valueAt, late, breached, alone>>
world == <<resource, clock, actual, alone>>
shared == <<value, at, valueAt>>
verdict == <<failing, prev, ok, breached, late>>

Readings == Levels \cup {CachedNone}
Goto(t, l) == pc' = [pc EXCEPT ![t] = l]

HigherIsWorse == resource.higher
Threshold == resource.threshold
Recovery == resource.recovery

Init ==
  /\ resource \in Resources
  /\ alone = TRUE
  /\ clock = 1
  /\ actual \in Readings
  /\ value = CachedNone /\ at = 0 /\ valueAt = 0
  /\ failing = FALSE
  /\ pc = [t \in Threads |-> "idle"]
  /\ now = [t \in Threads |-> 0]
  /\ level = [t \in Threads |-> CachedNone]
  /\ prev = [t \in Threads |-> FALSE]
  /\ ok = [t \in Threads |-> TRUE]
  /\ taken = [t \in Threads |-> 0]
  /\ breached = FALSE
  /\ late = [t \in Threads |-> FALSE]

-----------------------------------------------------------------------------
(* disk_free, rss *)

\* A probe reads the clock.
Start(t) ==
  /\ pc[t] = "idle"
  /\ Goto(t, "load")
  /\ now' = [now EXCEPT ![t] = clock]
  /\ late' = [late EXCEPT ![t] = breached]
  /\ alone' = (alone /\ \A u \in Threads : pc[u] = "idle")
  /\ UNCHANGED <<resource, clock, actual, shared, failing, prev, ok, breached, level, taken>>

\* Mutant: the age is compared with <=.
LoadTimeLate(t) ==
  /\ pc[t] = "load"
  /\ Goto(t, IF at # 0 /\ at <= now[t] /\ now[t] - at <= TTL THEN "reuse" ELSE "measure")
  /\ UNCHANGED <<world, shared, verdict, now, level, taken>>

\* The age of the cached value.  wrapping_sub makes a time that another worker
\* stored after `now` was read look expired.
LoadTime(t) ==
  /\ pc[t] = "load"
  /\ Goto(t, IF at # 0 /\ at <= now[t] /\ now[t] - at < TTL THEN "reuse" ELSE "measure")
  /\ UNCHANGED <<world, shared, verdict, now, level, taken>>

\* Without a measurement there is nothing to check, and the probe passes.
Reuse(t) ==
  /\ pc[t] = "reuse"
  /\ level' = [level EXCEPT ![t] = value]
  /\ taken' = [taken EXCEPT ![t] = valueAt]
  /\ Goto(t, IF value = CachedNone THEN "idle" ELSE "check")
  /\ ok' = IF value = CachedNone THEN [ok EXCEPT ![t] = TRUE] ELSE ok
  /\ UNCHANGED <<world, shared, failing, prev, breached, late, now>>

\* The system call.
Measure(t) ==
  /\ pc[t] = "measure"
  /\ level' = [level EXCEPT ![t] = actual]
  /\ taken' = [taken EXCEPT ![t] = clock]
  /\ Goto(t, "store")
  /\ UNCHANGED <<world, shared, verdict, now>>

StoreValue(t) ==
  /\ pc[t] = "store"
  /\ value' = level[t]
  /\ valueAt' = taken[t]
  /\ Goto(t, "stamp")
  /\ UNCHANGED <<world, at, verdict, now, level, taken>>

\* The time stored is the one read before the measurement.
StoreTime(t) ==
  /\ pc[t] = "stamp"
  /\ at' = now[t]
  /\ Goto(t, IF level[t] = CachedNone THEN "idle" ELSE "check")
  /\ ok' = IF level[t] = CachedNone THEN [ok EXCEPT ![t] = TRUE] ELSE ok
  /\ UNCHANGED <<world, value, valueAt, failing, prev, breached, late, now, level, taken>>

-----------------------------------------------------------------------------
(* check_with_hysteresis *)

LoadState(t) ==
  /\ pc[t] = "check"
  /\ prev' = [prev EXCEPT ![t] = failing]
  /\ Goto(t, "decide")
  /\ UNCHANGED <<world, shared, failing, ok, breached, late, now, level, taken>>

\* Mutant: the state is not consulted.
PassesMemoryless(wasFailing, v) ==
  IF HigherIsWorse THEN v < Threshold ELSE v >= Threshold

\* Mutant: a level at the threshold counts as good.
PassesAtThreshold(wasFailing, v) ==
  IF HigherIsWorse THEN v < (IF wasFailing THEN Recovery ELSE Threshold + 1)
  ELSE IF wasFailing THEN v > Recovery ELSE v >= Threshold

\* Whether a check passes, given the state before it.
Passes(wasFailing, v) ==
  IF HigherIsWorse THEN v < (IF wasFailing THEN Recovery ELSE Threshold)
  ELSE IF wasFailing THEN v > Recovery ELSE v >= Threshold

\* The level is past the recovery point.
Recovered(v) == IF HigherIsWorse THEN v < Recovery ELSE v > Recovery

StoreState(t) ==
  LET good == Passes(prev[t], level[t])
  IN /\ pc[t] = "decide"
     /\ failing' = ~good
     /\ ok' = [ok EXCEPT ![t] = good]
     /\ breached' = IF good THEN breached /\ ~Recovered(level[t]) ELSE TRUE
     /\ late' = IF breached' = breached THEN late ELSE [u \in Threads |-> FALSE]
     /\ Goto(t, "idle")
     /\ UNCHANGED <<world, shared, prev, now, level, taken>>

\* Time passes, and with it the resource.
Tick ==
  /\ clock < MaxTime
  /\ clock' = clock + 1
  /\ actual' \in Readings
  /\ UNCHANGED <<resource, alone, shared, verdict, pc, now, level, taken>>

Next ==
  \/ Tick
  \/ \E t \in Threads :
       \/ Start(t) \/ LoadTime(t) \/ Reuse(t) \/ Measure(t) \/ StoreValue(t)
       \/ StoreTime(t) \/ LoadState(t) \/ StoreState(t)

Spec == Init /\ [][Next]_vars

-----------------------------------------------------------------------------
(* Properties *)

\* Types of the state; the sentinel never reaches the comparison.
TypeOK ==
  /\ resource \in Resources /\ alone \in BOOLEAN
  /\ clock \in 1..MaxTime
  /\ actual \in Readings /\ value \in Readings
  /\ at \in 0..clock /\ valueAt \in 0..clock
  /\ failing \in BOOLEAN /\ breached \in BOOLEAN /\ late \in [Threads -> BOOLEAN]
  /\ pc \in [Threads -> {"idle", "load", "reuse", "measure", "store", "stamp", "check", "decide"}]
  /\ now \in [Threads -> 0..clock] /\ taken \in [Threads -> 0..clock]
  /\ level \in [Threads -> Readings]
  /\ \A t \in Threads : pc[t] \in {"check", "decide"} => level[t] # CachedNone
  /\ prev \in [Threads -> BOOLEAN] /\ ok \in [Threads -> BOOLEAN]

\* Disk space is checked with a margin that is not a number.
MarginIsNaN == ~HigherIsWorse /\ Recovery < Threshold

\* Whatever the workers overwrite for one another, a measurement over the limit
\* is answered as a failure.  The one exception is disk space when the margin
\* is NaN: a check that was failing then passes with any free byte.
BreachReported ==
  \A t \in Threads :
    pc[t] = "idle" /\ ok[t] /\ level[t] # CachedNone =>
      \/ IF HigherIsWorse THEN level[t] < Threshold ELSE level[t] >= Threshold
      \/ MarginIsNaN /\ prev[t] /\ level[t] > 0

\* TRUSS_HEALTH_CACHE_TTL_SECS is "how long /health/ready may reuse its disk
\* and memory measurements before taking them again" (docs/configuration.md):
\* as long as probes do not overlap, the value and the time HealthCache keeps
\* belong together, and no probe works with a measurement older than that.
FreshUnlessRaced ==
  \A t \in Threads :
    alone /\ pc[t] \in {"check", "decide"} =>
      taken[t] >= now[t] \/ now[t] - taken[t] < TTL

\* A probe that began after a failure was answered ends by passing.
PassesLate(t) == pc[t] # "idle" /\ pc'[t] = "idle" /\ ok'[t] /\ late[t]

\* A failure is not forgotten: as long as probes do not overlap, one that begins
\* after a failure was answered passes only with a value past the recovery
\* point, or because its measurement failed; that one leaves the check failing,
\* so that the next measurement is still held to the recovery point.
RecoversPastMargin ==
  [][\A t \in Threads :
       alone /\ PassesLate(t) =>
         IF level'[t] = CachedNone THEN failing' ELSE Recovered(level'[t])]_vars

\* "After a threshold is breached, the value must recover past threshold +-
\* margin before the check returns to ok" (docs/configuration.md): without the
\* exception it does not hold, see the README.
OkOnlyPastMargin ==
  [][\A t \in Threads :
       alone /\ PassesLate(t) => level'[t] # CachedNone /\ Recovered(level'[t])]_vars
=============================================================================
