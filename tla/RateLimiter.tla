---------------------------- MODULE RateLimiter ----------------------------
(***************************************************************************)
(* The per-IP token-bucket rate limiter of src/adapters/server/            *)
(* rate_limit.rs, called by every connection worker.                       *)
(*                                                                         *)
(* RateLimiter::check reads the clock BEFORE it takes the shard's mutex,   *)
(* so a call is two steps here: Sample (the clock is read) and Check (the  *)
(* critical section).  Tokens are f64 in the code; here a token is Unit    *)
(* units and the clock refills Rate units per tick, which keeps fractions  *)
(* of a token exact.                                                       *)
(***************************************************************************)
EXTENDS Integers, FiniteSets

CONSTANTS
  Ips,              \* client addresses
  Threads,          \* connection workers that call check
  Shards,           \* the NUM_SHARDS mutexes
  ShardOf,          \* shard_index: a fixed hash of the address
  Rate,             \* units refilled per clock tick
  Burst,            \* capacity of a bucket, in units
  Unit,             \* units in one token
  CleanupThreshold, \* CLEANUP_THRESHOLD_PER_SHARD
  CleanupIdle,      \* CLEANUP_IDLE_SECS, in ticks
  MaxTime           \* bound: the clock stops here

ASSUME RateLimiterAssumption ==
  /\ ShardOf \in [Ips -> Shards]
  /\ Rate \in Nat /\ Burst \in Nat /\ Unit \in Nat \ {0}
  /\ Unit <= Burst
  /\ CleanupThreshold \in Nat /\ CleanupIdle \in Nat /\ MaxTime \in Nat

VARIABLES
  clock,     \* the monotonic clock (Instant::now)
  known,     \* the addresses that have a Bucket
  tokens,    \* Bucket.tokens, meaningful for known addresses
  last,      \* Bucket.last_refill
  pc,        \* per thread: "idle", or "sampled" between the clock and the lock
  caller,    \* per thread: the address it is checking
  now,       \* per thread: the instant it read; 0 outside a call
  exact,     \* history: tokens of an ideal bucket charged for the same grants
  exactAt,   \* history: the latest instant the ideal bucket has seen
  gift       \* history: units handed out by cleanup and by late readings

vars == <<clock, known, tokens, last, pc, caller, now, exact, exactAt, gift>>

MinOf(a, b) == IF a <= b THEN a ELSE b

\* saturating_duration_since
Elapsed(from, to) == IF to >= from THEN to - from ELSE 0

\* Mutant: the refill takes the last interval one tick shorter than it was.
RefilledShort(tok, at, n) == MinOf(tok + Rate * Elapsed(at + 1, n), Burst)

\* bucket.tokens after the refill of a check made at instant n
Refilled(tok, at, n) == MinOf(tok + Rate * Elapsed(at, n), Burst)

\* The addresses of a shard that survive the lazy cleanup of a check at n.
Sweep(shard, n) ==
  LET here == {ip \in known : ShardOf[ip] = shard}
      stale == {ip \in here : Elapsed(last[ip], n) >= CleanupIdle}
  IN IF Cardinality(here) > CleanupThreshold THEN known \ stale ELSE known

\* What the ideal bucket holds at instant n: its own instants never go back.
ExactAt(ip, n) == MinOf(exact[ip] + Rate * Elapsed(exactAt[ip], n), Burst)

\* Units an address gains over the ideal bucket when a check at n reaches the
\* mutex after one with a later reading: the time in between counts again.
Again(ip, kept, n) ==
  Rate * Elapsed(n, IF ip \in kept THEN last[ip] ELSE exactAt[ip])

\* Units an address gains when the cleanup forgets a bucket that was not full.
Forgiven(ip, kept) == IF ip \in known \ kept THEN Burst - tokens[ip] ELSE 0

Init ==
  /\ clock = 0
  /\ known = {}
  /\ tokens = [ip \in Ips |-> 0]
  /\ last = [ip \in Ips |-> 0]
  /\ pc = [t \in Threads |-> "idle"]
  /\ caller \in [Threads -> Ips]
  /\ now = [t \in Threads |-> 0]
  /\ exact = [ip \in Ips |-> Burst]
  /\ exactAt = [ip \in Ips |-> 0]
  /\ gift = [ip \in Ips |-> 0]

Tick ==
  /\ clock < MaxTime
  /\ clock' = clock + 1
  /\ UNCHANGED <<known, tokens, last, pc, caller, now, exact, exactAt, gift>>

\* check is entered for an address: the clock is read, no lock is held.
Sample(t, ip) ==
  /\ pc[t] = "idle"
  /\ pc' = [pc EXCEPT ![t] = "sampled"]
  /\ caller' = [caller EXCEPT ![t] = ip]
  /\ now' = [now EXCEPT ![t] = clock]
  /\ UNCHANGED <<clock, known, tokens, last, exact, exactAt, gift>>

\* Mutant: last_refill is set only by a request that is let through.
CheckStampsGrants(t) ==
  LET ip == caller[t]
      kept == Sweep(ShardOf[ip], now[t])
      before == IF ip \in kept THEN Refilled(tokens[ip], last[ip], now[t])
                               ELSE Burst
      allowed == before >= Unit
  IN /\ pc[t] = "sampled"
     /\ pc' = [pc EXCEPT ![t] = "idle"]
     /\ known' = kept \cup {ip}
     /\ tokens' = [tokens EXCEPT ![ip] = IF allowed THEN before - Unit ELSE before]
     /\ last' = [last EXCEPT ![ip] = IF allowed \/ ip \notin kept THEN now[t] ELSE @]
     /\ exact' = [exact EXCEPT ![ip] = ExactAt(ip, now[t]) - (IF allowed THEN Unit ELSE 0)]
     /\ exactAt' = [exactAt EXCEPT ![ip] = IF now[t] >= @ THEN now[t] ELSE @]
     /\ gift' = [p \in Ips |-> gift[p] + Forgiven(p, kept)
                   + (IF p = ip THEN Again(ip, kept, now[t]) ELSE 0)]
     /\ now' = [now EXCEPT ![t] = 0]
     /\ UNCHANGED <<clock, caller>>

\* The critical section: cleanup, insertion, refill, and the decision.
Check(t) ==
  LET ip == caller[t]
      kept == Sweep(ShardOf[ip], now[t])
      before == IF ip \in kept THEN Refilled(tokens[ip], last[ip], now[t])
                               ELSE Burst
      allowed == before >= Unit
  IN /\ pc[t] = "sampled"
     /\ pc' = [pc EXCEPT ![t] = "idle"]
     /\ known' = kept \cup {ip}
     /\ tokens' = [tokens EXCEPT ![ip] = IF allowed THEN before - Unit ELSE before]
     /\ last' = [last EXCEPT ![ip] = now[t]]
     /\ exact' = [exact EXCEPT ![ip] = ExactAt(ip, now[t]) - (IF allowed THEN Unit ELSE 0)]
     /\ exactAt' = [exactAt EXCEPT ![ip] = IF now[t] >= @ THEN now[t] ELSE @]
     /\ gift' = [p \in Ips |-> gift[p] + Forgiven(p, kept)
                   + (IF p = ip THEN Again(ip, kept, now[t]) ELSE 0)]
     /\ now' = [now EXCEPT ![t] = 0]
     /\ UNCHANGED <<clock, caller>>

Next ==
  \/ Tick
  \/ \E t \in Threads, ip \in Ips : Sample(t, ip)
  \/ \E t \in Threads : Check(t)

Spec == Init /\ [][Next]_vars

-----------------------------------------------------------------------------
(* Properties *)

\* Types, and that no instant in use lies in the future of the clock: a
\* bucket and a sampled call only ever hold instants that have been read.
TypeOK ==
  /\ clock \in 0..MaxTime
  /\ known \subseteq Ips
  /\ tokens \in [Ips -> 0..Burst]
  /\ last \in [Ips -> 0..clock]
  /\ pc \in [Threads -> {"idle", "sampled"}]
  /\ caller \in [Threads -> Ips]
  /\ now \in [Threads -> 0..clock]
  /\ exact \in [Ips -> Int] /\ \A ip \in Ips : exact[ip] <= Burst
  /\ exactAt \in [Ips -> 0..clock]
  /\ gift \in [Ips -> Nat]

\* What check would find for an address if it were called right now.
Potential(ip) ==
  IF ip \in known THEN MinOf(tokens[ip] + Rate * (clock - last[ip]), Burst)
                  ELSE Burst

\* A client is never held below its configured rate: whatever order the
\* workers reach the mutex in, and whatever the cleanup drops, the bucket of
\* RateLimiter::check is worth at least as much as an ideal bucket that was
\* charged for the same grants at the instants they were made.
NeverUnderserved == \A ip \in Ips : Potential(ip) >= ExactAt(ip, clock)

\* A client is let past its configured rate (docs/configuration.md,
\* TRUSS_RATE_LIMIT_RPS) only by what the two known leaks account for: every
\* request that check allows is covered by a whole token of an ideal bucket of
\* the configured rate and burst, up to the units that the idle cleanup
\* forgave and that readings applied late refilled twice.
GrantsCovered == \A ip \in Ips : exact[ip] + gift[ip] >= 0
=============================================================================
