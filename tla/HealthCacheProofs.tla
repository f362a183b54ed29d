------------------------- MODULE HealthCacheProofs -------------------------
(***************************************************************************)
(* Theorems about HealthCache, for any number of workers and any           *)
(* thresholds: a measurement over the limit is answered as a failure, and  *)
(* as long as probes do not overlap, the two atomics of a measurement      *)
(* belong together and the hysteresis remembers a failure.                 *)
(***************************************************************************)
EXTENDS HealthCache, TLAPS

-----------------------------------------------------------------------------
(* Types *)

\* What a reading and the numbers it is compared with are.
LEMMA ResourceType ==
  ASSUME TypeOK
  PROVE  /\ HigherIsWorse \in BOOLEAN /\ Threshold \in Nat /\ Recovery \in Nat
         /\ IF HigherIsWorse THEN Recovery <= Threshold
            ELSE Recovery >= Threshold \/ (MarginIsNaN /\ Recovery = 0)
         /\ \A t \in Threads : level[t] \in Nat
<1>1. HigherIsWorse \in BOOLEAN
  BY HealthAssumption, Zenon DEF TypeOK, HigherIsWorse
<1>2. Threshold \in Nat /\ Recovery \in Nat /\ \A t \in Threads : level[t] \in Nat
  BY HealthAssumption DEF TypeOK, Readings, Threshold, Recovery
<1>3. \/ Recovery = 0
      \/ IF HigherIsWorse THEN Recovery <= Threshold ELSE Recovery >= Threshold
  BY HealthAssumption, Zenon DEF TypeOK, HigherIsWorse, Threshold, Recovery
<1>. QED  BY <1>1, <1>2, <1>3 DEF MarginIsNaN

LEMMA TypeInit == Init => TypeOK
<1>. SUFFICES ASSUME Init PROVE TypeOK
  OBVIOUS
<1>1. 1 \in 1..MaxTime /\ 0 \in 0..clock
  BY HealthAssumption DEF Init
<1>. QED  BY <1>1 DEF Init, TypeOK, Readings

LEMMA TypeStep ==
  ASSUME TypeOK, [Next]_vars
  PROVE  TypeOK'
<1>. USE HealthAssumption DEF TypeOK, Readings
<1>1. CASE Tick
  <2>1. clock' \in 1..MaxTime /\ 0..clock \subseteq 0..clock'
    BY <1>1 DEF Tick
  <2>. QED  BY <1>1, <2>1 DEF Tick, shared, verdict
<1>2. ASSUME NEW t \in Threads, Start(t) PROVE TypeOK'
  BY <1>2 DEF Start, Goto, shared
<1>3. ASSUME NEW t \in Threads, LoadTime(t) PROVE TypeOK'
  BY <1>3 DEF LoadTime, Goto, world, shared, verdict
<1>4. ASSUME NEW t \in Threads, Reuse(t) PROVE TypeOK'
  BY <1>4 DEF Reuse, Goto, world, shared
<1>5. ASSUME NEW t \in Threads, Measure(t) PROVE TypeOK'
  BY <1>5 DEF Measure, Goto, world, shared, verdict
<1>6. ASSUME NEW t \in Threads, StoreValue(t) PROVE TypeOK'
  BY <1>6 DEF StoreValue, Goto, world, verdict
<1>7. ASSUME NEW t \in Threads, StoreTime(t) PROVE TypeOK'
  BY <1>7 DEF StoreTime, Goto, world
<1>8. ASSUME NEW t \in Threads, LoadState(t) PROVE TypeOK'
  BY <1>8 DEF LoadState, Goto, world, shared
<1>9. ASSUME NEW t \in Threads, StoreState(t) PROVE TypeOK'
  <2>1. Passes(prev[t], level[t]) \in BOOLEAN
    <3>1. /\ (level[t] < Recovery) \in BOOLEAN /\ (level[t] < Threshold) \in BOOLEAN
          /\ (level[t] > Recovery) \in BOOLEAN /\ (level[t] >= Threshold) \in BOOLEAN
      BY ResourceType
    <3>. QED  BY <3>1, Zenon DEF Passes
  <2>. QED  BY <1>9, <2>1 DEF StoreState, Goto, world, shared
<1>10. CASE UNCHANGED vars
  BY <1>10 DEF vars
<1>. QED
  BY <1>1, <1>2, <1>3, <1>4, <1>5, <1>6, <1>7, <1>8, <1>9, <1>10 DEF Next

\* Every cached time was read from the clock, and CACHED_NONE never reaches the
\* comparison with a threshold.
THEOREM ProbeTypes == Spec => []TypeOK
BY TypeInit, TypeStep, PTL DEF Spec

-----------------------------------------------------------------------------
(* Over the limit is a failure *)

\* The level a thread answers about is one it may pass with.
Within(t) ==
  \/ IF HigherIsWorse THEN level[t] < Threshold ELSE level[t] >= Threshold
  \/ MarginIsNaN /\ prev[t] /\ level[t] > 0

\* With a margin in its range the recovery point is on the good side of the
\* threshold, so a check passes only on that side, whatever state it loaded.
LEMMA PassesWithin ==
  ASSUME TypeOK, NEW t \in Threads, Passes(prev[t], level[t])
  PROVE  Within(t)
<1>1. CASE prev[t]
  BY <1>1, ResourceType DEF Passes, Within
<1>2. CASE ~prev[t]
  BY <1>2, ResourceType DEF Passes, Within
<1>. QED  BY <1>1, <1>2

LEMMA BreachStep ==
  ASSUME TypeOK, BreachReported, [Next]_vars
  PROVE  BreachReported'
<1>. USE DEF BreachReported, TypeOK, HigherIsWorse, Threshold, Recovery, MarginIsNaN
<1>1. CASE Tick
  BY <1>1 DEF Tick, verdict
<1>2. ASSUME NEW t \in Threads, Start(t) PROVE BreachReported'
  BY <1>2 DEF Start, Goto
<1>3. ASSUME NEW t \in Threads, LoadTime(t) PROVE BreachReported'
  BY <1>3 DEF LoadTime, Goto, world, verdict
<1>4. ASSUME NEW t \in Threads, Reuse(t) PROVE BreachReported'
  BY <1>4 DEF Reuse, Goto, world
<1>5. ASSUME NEW t \in Threads, Measure(t) PROVE BreachReported'
  BY <1>5 DEF Measure, Goto, world, verdict
<1>6. ASSUME NEW t \in Threads, StoreValue(t) PROVE BreachReported'
  BY <1>6 DEF StoreValue, Goto, world, verdict
<1>7. ASSUME NEW t \in Threads, StoreTime(t) PROVE BreachReported'
  BY <1>7 DEF StoreTime, Goto, world
<1>8. ASSUME NEW t \in Threads, LoadState(t) PROVE BreachReported'
  BY <1>8 DEF LoadState, Goto, world
<1>9. ASSUME NEW t \in Threads, StoreState(t) PROVE BreachReported'
  <2>1. UNCHANGED <<resource, level, prev>>
    BY <1>9 DEF StoreState, world
  <2>2. ok'[t] => Passes(prev[t], level[t])
    BY <1>9 DEF StoreState
  <2>3. ok'[t] => Within(t)
    BY <2>2, PassesWithin
  <2>4. \A u \in Threads \ {t} : ok'[u] = ok[u] /\ pc'[u] = pc[u]
    BY <1>9 DEF StoreState, Goto
  <2>. QED  BY <2>1, <2>3, <2>4 DEF Within
<1>10. CASE UNCHANGED vars
  BY <1>10 DEF vars
<1>. QED
  BY <1>1, <1>2, <1>3, <1>4, <1>5, <1>6, <1>7, <1>8, <1>9, <1>10 DEF Next

\* However the probes of any number of workers overlap, none of them passes
\* with a measurement over the limit, unless disk space is checked with a
\* margin that is not a number.
THEOREM BreachesAreReported == Spec => []BreachReported
<1>1. Init => BreachReported
  BY DEF Init, BreachReported
<1>. QED  BY <1>1, BreachStep, ProbeTypes, PTL DEF Spec

-----------------------------------------------------------------------------
(* Probes that do not overlap *)

\* At most one probe is under way.
OneProbe == \A t, u \in Threads : pc[t] # "idle" /\ pc[u] # "idle" => t = u

\* The cached time is not after the cached value was measured, except while a
\* probe is between its two stores.
PairCoherent ==
  at # 0 /\ (\A t \in Threads : pc[t] # "stamp") => at <= valueAt

\* What a probe knows of its measurement at each of its steps.
ProbeKnows(t) ==
  /\ pc[t] = "reuse" => at # 0 /\ at <= now[t] /\ now[t] - at < TTL
  /\ pc[t] \in {"store", "stamp"} => taken[t] >= now[t]
  /\ pc[t] = "stamp" => valueAt = taken[t]
  /\ pc[t] \in {"check", "decide"} => taken[t] >= now[t] \/ now[t] - taken[t] < TTL

\* The stored state remembers every failure that was answered, and a probe
\* that decides has loaded it.
FailureKept ==
  /\ breached => failing
  /\ \A t \in Threads : pc[t] = "decide" => prev[t] = failing

\* The inductive invariant: the rest holds while no two probes have overlapped;
\* a probe counts as late only while a failure stands.
AloneInv ==
  /\ \A t \in Threads : late[t] => breached
  /\ alone => /\ OneProbe /\ PairCoherent /\ FailureKept
              /\ \A t \in Threads : ProbeKnows(t)

LEMMA AloneInit == Init => AloneInv
BY DEF Init, AloneInv, OneProbe, PairCoherent, FailureKept, ProbeKnows

LEMMA AloneStep ==
  ASSUME TypeOK, AloneInv, [Next]_vars
  PROVE  AloneInv'
<1>. USE DEF AloneInv, OneProbe, PairCoherent, FailureKept, ProbeKnows, TypeOK
<1>1. CASE Tick
  BY <1>1 DEF Tick, shared, verdict
<1>2. ASSUME NEW t \in Threads, Start(t) PROVE AloneInv'
  BY <1>2 DEF Start, Goto, shared
<1>3. ASSUME NEW t \in Threads, LoadTime(t) PROVE AloneInv'
  BY <1>3 DEF LoadTime, Goto, world, shared, verdict
<1>4. ASSUME NEW t \in Threads, Reuse(t) PROVE AloneInv'
  <2>1. /\ pc[t] = "reuse" /\ taken'[t] = valueAt /\ pc'[t] \in {"idle", "check"}
        /\ \A u \in Threads \ {t} : pc'[u] = pc[u] /\ taken'[u] = taken[u]
        /\ UNCHANGED <<world, shared, failing, prev, breached, late, now>>
    BY <1>4 DEF Reuse, Goto
  <2>2. alone => at <= valueAt /\ at <= now[t] /\ now[t] - at < TTL
    BY <2>1
  <2>3. alone => taken'[t] >= now[t] \/ now[t] - taken'[t] < TTL
    BY <2>1, <2>2, HealthAssumption
  <2>. QED  BY <2>1, <2>3 DEF world, shared
<1>5. ASSUME NEW t \in Threads, Measure(t) PROVE AloneInv'
  BY <1>5 DEF Measure, Goto, world, shared, verdict
<1>6. ASSUME NEW t \in Threads, StoreValue(t) PROVE AloneInv'
  BY <1>6 DEF StoreValue, Goto, world, verdict
<1>7. ASSUME NEW t \in Threads, StoreTime(t) PROVE AloneInv'
  BY <1>7 DEF StoreTime, Goto, world
<1>8. ASSUME NEW t \in Threads, LoadState(t) PROVE AloneInv'
  BY <1>8 DEF LoadState, Goto, world, shared
<1>9. ASSUME NEW t \in Threads, StoreState(t) PROVE AloneInv'
  BY <1>9, ResourceType DEF StoreState, Goto, world, shared, Passes, Recovered
<1>10. CASE UNCHANGED vars
  BY <1>10 DEF vars
<1>. QED
  BY <1>1, <1>2, <1>3, <1>4, <1>5, <1>6, <1>7, <1>8, <1>9, <1>10 DEF Next

LEMMA AloneAlways == Spec => [](TypeOK /\ AloneInv)
BY TypeInit, TypeStep, AloneInit, AloneStep, PTL DEF Spec

\* As long as probes do not overlap, no probe answers from a measurement older
\* than TRUSS_HEALTH_CACHE_TTL_SECS.
THEOREM MeasurementsAreFresh == Spec => []FreshUnlessRaced
<1>1. AloneInv => FreshUnlessRaced
  BY DEF AloneInv, ProbeKnows, FreshUnlessRaced
<1>. QED  BY <1>1, AloneAlways, PTL

\* As long as probes do not overlap, a check that failed passes again only past
\* the recovery point or for want of a measurement, and the latter leaves it
\* failing.
THEOREM RecoveryIsPastMargin == Spec => RecoversPastMargin
<1>. DEFINE Margin == \A t \in Threads :
                        alone /\ PassesLate(t) =>
                          IF level'[t] = CachedNone THEN failing' ELSE Recovered(level'[t])
<1>1. TypeOK /\ AloneInv /\ [Next]_vars => [Margin]_vars
  <2>. SUFFICES ASSUME TypeOK, AloneInv, Next,
                       NEW t \in Threads, alone, PassesLate(t)
                PROVE  IF level'[t] = CachedNone THEN failing' ELSE Recovered(level'[t])
    OBVIOUS
  <2>1. failing = TRUE /\ (pc[t] = "decide" => prev[t] = TRUE)
    BY DEF AloneInv, FailureKept, TypeOK, PassesLate
  <2>2. \/ pc[t] = "decide" /\ StoreState(t)
        \/ failing' = failing /\ level'[t] = CachedNone
    <3>. USE DEF TypeOK, PassesLate, Goto
    <3>1. ~Tick /\ \A u \in Threads : ~Start(u) /\ ~LoadTime(u) /\ ~Measure(u)
                                      /\ ~StoreValue(u) /\ ~LoadState(u)
      BY DEF Tick, Start, LoadTime, Measure, StoreValue, LoadState
    <3>2. PICK u \in Threads : Reuse(u) \/ StoreTime(u) \/ StoreState(u)
      BY <3>1 DEF Next
    <3>3. u = t
      BY <3>2 DEF Reuse, StoreTime, StoreState
    <3>4. CASE Reuse(t)
      BY <3>4 DEF Reuse
    <3>5. CASE StoreTime(t)
      BY <3>5 DEF StoreTime
    <3>6. CASE StoreState(t)
      BY <3>6 DEF StoreState
    <3>. QED  BY <3>2, <3>3, <3>4, <3>5, <3>6
  <2>3. CASE pc[t] = "decide" /\ StoreState(t)
    <3>1. Passes(TRUE, level[t]) /\ level'[t] = level[t]
      BY <2>1, <2>3 DEF StoreState, TypeOK, PassesLate
    <3>2. level[t] # CachedNone
      BY <2>3 DEF TypeOK
    <3>. QED  BY <3>1, <3>2, ResourceType DEF Passes, Recovered
  <2>. QED  BY <2>1, <2>2, <2>3
<1>. QED  BY <1>1, AloneAlways, PTL DEF RecoversPastMargin, Spec
=============================================================================
